---- MODULE Spec2Model ----
(***************************************************************************)
(* A model of the synchronization engine of b2again-legacy-repo-sync:      *)
(* the download-status store (lib/downloads.ts), the content fetcher       *)
(* downloadFile, the per-item downloader processTheme / processPlugin and  *)
(* the orchestrator loop downloadFiles of themattic.ts / pluperfect.ts.    *)
(*                                                                         *)
(* The JavaScript value `undefined` is the empty tuple.  File contents,    *)
(* digests and timestamps are tuples, so that they can be compared with    *)
(* `undefined` and with each other.                                        *)
(***************************************************************************)
EXTENDS Naturals, Integers, Sequences, FiniteSets, TLC

(***************************************************************************)
(* Bounds of the model.                                                    *)
(***************************************************************************)
\* upstream releases of one item: versions 1..MaxVersion
MaxVersion == 2
\* the largest value of the --pace option that is tried
MaxPace == 2
\* number of runs of the program (calls of main) in one behaviour
MaxRuns == 2
\* number of failures of the environment (a response that is not ok, an
\* I/O error, a failed write of the status file, a killed process) in one
\* behaviour
MaxFaults == 1

(***************************************************************************)
(* Values.                                                                 *)
(***************************************************************************)
Undefined == <<>>

\* the catalog: slugs of the upstream items
Slugs == {"a", "b"}
\* a list item that carries no string slug
NoSlug == "<none>"

\* what is at a path of the mirror: nothing, or a regular file with bytes
NoFile == <<"nofile">>
\* something at the path that is not a regular file
Directory == <<"dir">>
\* the file createWriteStream(.., 'wx') has just created
EmptyFile == <<"bytes">>
\* the complete body of asset `name` of upstream release v
Bytes(name, v) == <<"bytes", name, v>>
\* a body of which only the first chunks were written
Truncated(name, v) == <<"bytes", name, v, "cut">>
IsFile(c) == c \notin {NoFile, Directory}

\* createHash(alg).update(bytes).digest('hex'): one digest per content
Digest(alg, c) == <<alg>> \o c

\* the cached raw metadata record (legacy-theme.json): release v of the
\* item, or v = 0 for a body that is an error sentinel or lacks a field
Json(v) == <<"json", v>>

(***************************************************************************)
(* Timestamps are strings; the release counter is rendered without         *)
(* padding, as the hours of last_updated ("9:05pm", "10:05pm") are.        *)
(* Strings are sequences of digit characters.                              *)
(***************************************************************************)
RECURSIVE ToStamp(_)
ToStamp(v) == IF v < 2 THEN <<v>> ELSE ToStamp(v \div 2) \o <<v % 2>>

\* JavaScript's s < t on strings: lexicographic on the code units
RECURSIVE StringLess(_, _)
StringLess(s, t) ==
    IF t = <<>> THEN FALSE
    ELSE IF s = <<>> THEN TRUE
    ELSE IF Head(s) # Head(t) THEN Head(s) < Head(t)
    ELSE StringLess(Tail(s), Tail(t))

\* typeof x === 'string' for a timestamp field
IsString(x) == x # Undefined

(***************************************************************************)
(* mergeDownloadInfo(existing, recent)                                     *)
(***************************************************************************)
\* a ?? b
Coalesce(a, b) == IF a # Undefined THEN a ELSE b

\* existing ?? { } followed by the destructuring of sha256, md5, sha1
DigestsOf(existing) ==
    IF existing = Undefined
    THEN [sha256 |-> Undefined, md5 |-> Undefined, sha1 |-> Undefined]
    ELSE [sha256 |-> existing.sha256, md5 |-> existing.md5, sha1 |-> existing.sha1]

\* a merge in which a stored digest wins over a recomputed one
mergeKeepsStored(existing, recent) ==
    LET ex == DigestsOf(existing) IN
    [filename |-> recent.filename,
     when     |-> recent.when,
     status   |-> recent.status,
     md5      |-> Coalesce(ex.md5, recent.md5),
     sha256   |-> Coalesce(ex.sha256, recent.sha256),
     sha1     |-> Coalesce(ex.sha1, recent.sha1)]

mergeDownloadInfo(existing, recent) ==
    LET ex == DigestsOf(existing) IN
    [filename |-> recent.filename,
     when     |-> recent.when,
     status   |-> recent.status,
     md5      |-> Coalesce(recent.md5, ex.md5),
     sha256   |-> Coalesce(recent.sha256, ex.sha256),
     sha1     |-> Coalesce(recent.sha1, ex.sha1)]

(***************************************************************************)
(* downloadFile(reporter, sourceUrl, targetFile, force, needHash)          *)
(*                                                                         *)
(* cur is what is at targetFile, src the body the source URL serves, and   *)
(* io what the environment does to the one I/O the call performs:          *)
(*   "ok"          the fetch (or the read of the existing file) succeeds   *)
(*   "http_error"  the response is not ok (or has no body)                 *)
(*   "io_error"    an exception while the body is streamed to the file,    *)
(*                 or an error event of the read stream                    *)
(*   "write_error" the response is ok and its body is received, but a      *)
(*                 write of the stream to targetFile fails: output.write   *)
(*                 does not throw, and the call returns before the error   *)
(*                 event of the stream is emitted                          *)
(* The result is the record returned (or threw, for a rejected promise),   *)
(* the content of targetFile afterwards and the number of GETs issued.     *)
(***************************************************************************)
IoOutcomes == {"ok", "http_error", "io_error"}
\* and with a disk that fails while a body is written
FetchOutcomes == IoOutcomes \cup {"write_error"}

FailedInfo(targetFile, now) ==
    [filename |-> targetFile, status |-> "failed", when |-> now,
     sha256 |-> Undefined, md5 |-> Undefined, sha1 |-> Undefined]

FullInfo(targetFile, now, c) ==
    [filename |-> targetFile, status |-> "full", when |-> now,
     sha256 |-> Digest("sha256", c), md5 |-> Digest("md5", c),
     sha1 |-> Digest("sha1", c)]

FullInfoNoDigest(targetFile, now) ==
    [filename |-> targetFile, status |-> "full", when |-> now,
     sha256 |-> Undefined, md5 |-> Undefined, sha1 |-> Undefined]

\* a check that keeps an existing regular file even when force is set
DownloadNeededUnforced(cur, force) == (cur = NoFile) \/ ~IsFile(cur)

\* lstat throws (nothing at the path), or the path is no regular file, or
\* force is set
DownloadNeeded(cur, force) == (cur = NoFile) \/ ~IsFile(cur) \/ force

downloadFile(targetFile, cur, src, cut, force, needHash, io, now) ==
    IF DownloadNeeded(cur, force)
    THEN \* the old file is removed, createWriteStream creates the new one
         CASE io = "http_error" ->
                [threw |-> FALSE, info |-> FailedInfo(targetFile, now),
                 file |-> EmptyFile, gets |-> 1]
           [] io = "io_error" ->
                [threw |-> FALSE, info |-> FailedInfo(targetFile, now),
                 file |-> cut, gets |-> 1]
           [] io = "write_error" ->
                \* the digests are the ones of the chunks received
                [threw |-> FALSE, info |-> FullInfo(targetFile, now, src),
                 file |-> cut, gets |-> 1]
           [] OTHER ->
                [threw |-> FALSE, info |-> FullInfo(targetFile, now, src),
                 file |-> src, gets |-> 1]
    ELSE IF needHash
    THEN \* the promise of the read stream is returned without await: its
         \* rejection is not caught here
         IF io = "io_error"
         THEN [threw |-> TRUE, info |-> Undefined, file |-> cur, gets |-> 0]
         ELSE [threw |-> FALSE, info |-> FullInfo(targetFile, now, cur),
               file |-> cur, gets |-> 0]
    ELSE [threw |-> FALSE, info |-> FullInfoNoDigest(targetFile, now),
          file |-> cur, gets |-> 0]

\* downloadZip: chmod 0o644, downloadFile, chmod 0o444 (both chmod failures
\* are swallowed); the permission bits do not change the content
downloadZip(targetFile, cur, src, cut, options, io, now) ==
    downloadFile(targetFile, cur, src, cut, options.force, options.rehash, io, now)

\* what is at a path with its permission bits: "rw" is 0o644 (and the
\* default of a file that is created), "ro" is 0o444
PathState(c, m) == [content |-> c, mode |-> m]
NoPath == PathState(NoFile, "none")

\* Deno.chmod(path, mode) inside try { } catch (_) { }: nothing happens
\* when nothing is at the path
chmod(path, m) == IF path.content = NoFile THEN path ELSE [path EXCEPT !.mode = m]

\* the path after downloadFile returned r: when a GET was issued the old
\* target was removed and createWriteStream created a new file
AfterFetch(path, r) ==
    IF r.gets = 0 THEN path ELSE PathState(r.file, "rw")

\* downloadZip with the permission bits: chmod 0o644, downloadFile,
\* chmod 0o444; when the awaited downloadFile throws, the second chmod is
\* not reached
ZipLifecycle(targetFile, path, src, cut, options, io, now) ==
    LET relaxed == chmod(path, "rw")
        r == downloadZip(targetFile, relaxed.content, src, cut, options, io, now)
    IN [value |-> r,
        path |-> IF r.threw THEN AfterFetch(relaxed, r)
                 ELSE chmod(AfterFetch(relaxed, r), "ro")]

(***************************************************************************)
(* The Status Store: readDownloadStatus, saveDownloadStatus.               *)
(*                                                                         *)
(* The status file is [readable, when, map]; readable is FALSE when the    *)
(* file is missing or is not JSON.  A store is [when, map], map a function *)
(* from slugs to group records [status, when, last_updated_time, files].   *)
(***************************************************************************)
\* a status, or a when, of a persisted entry that has the wrong type
NotAString == "<not a string>"
NotANumber == 0 - 1

EmptyMap == <<>>
NoStatusFile == [readable |-> FALSE, when |-> 0, map |-> EmptyMap]

\* { status: 'unknown', when: 0, files: {} }
DefaultEntry ==
    [status |-> "unknown", when |-> 0, last_updated_time |-> Undefined,
     files |-> EmptyMap]

\* typeof e === 'object' && typeof e.status === 'string' &&
\* typeof e.when === 'number'
WellFormed(e) == e.status # NotAString /\ e.when # NotANumber

\* JSON null where the map or an entry is expected: typeof null === 'object'
NullValue == [null |-> TRUE]
\* a JSON string or number where an entry is expected
NotAnObject == [scalar |-> TRUE]
\* the same two where the file map of an entry is expected (file maps are
\* functions of file names)
NullFiles == [n \in {<<"null">>} |-> Undefined]
NotAFileMap == [n \in {<<"scalar">>} |-> Undefined]

\* the test of the loop: typeof e === 'object' and, read with e?.status
\* and e?.when (undefined on null), a string status that is not 'unknown'
\* and a number when
Kept(e) ==
    /\ e \notin {NotAnObject, NullValue}
    /\ WellFormed(e)
    /\ e.status # "unknown"

\* if (typeof files !== 'object') files = {}
LoadedFiles(files) == IF files = NotAFileMap THEN EmptyMap ELSE files

\* the catch clause is entered when the file is not readable or not JSON,
\* and when Object.keys(original.map) throws on a missing or null map;
\* info.when was assigned before that
readDownloadStatus(file, slugs) ==
    LET when == IF file.readable /\ file.when # NotANumber THEN file.when ELSE 0
    IN IF file.readable /\ file.map # NullValue
       THEN [when |-> when,
             map  |-> [slug \in DOMAIN file.map |->
                         IF Kept(file.map[slug])
                         THEN [file.map[slug] EXCEPT !.files = LoadedFiles(@)]
                         ELSE DefaultEntry]]
       ELSE [when |-> when, map |-> [slug \in slugs |-> DefaultEntry]]

\* what Deno.writeTextFile does to the status file: it is written, or the
\* write fails before the file is touched, or it fails after the file was
\* truncated and leaves text that is not JSON
SaveOutcomes == {"ok", "failed", "torn"}

saveDownloadStatus(file, info, sv) ==
    CASE sv = "ok"   -> [readable |-> TRUE, when |-> info.when, map |-> info.map]
      [] sv = "torn" -> NoStatusFile
      [] OTHER       -> file

(***************************************************************************)
(* downloadFiles: the steps before the asynchronous calls                  *)
(***************************************************************************)
\* main: themeList.forEach((item) => { if (item.slug) themeSlugs.push(..) })
RECURSIVE SlugsOf(_)
SlugsOf(list) ==
    IF list = <<>> THEN {}
    ELSE (IF Head(list).slug # NoSlug THEN {Head(list).slug} ELSE {})
         \cup SlugsOf(Tail(list))

\* a pruning that also forgets the files of the slug
PruneForgets(store, slugs) ==
    [store EXCEPT !.map =
        [slug \in DOMAIN store.map |->
            IF slug \notin slugs
            THEN [store.map[slug] EXCEPT !.status = "uninteresting", !.files = <<>>]
            ELSE store.map[slug]]]

\* for (const slug in status.map) if (!themeSlugs.includes(slug)) ...
Prune(store, slugs) ==
    [store EXCEPT !.map =
        [slug \in DOMAIN store.map |->
            IF slug \notin slugs
            THEN [store.map[slug] EXCEPT !.status = "uninteresting"]
            ELSE store.map[slug]]]

\* if (typeof status.map[slug] !== 'object') status.map[slug] = {...}
WithEntry(map, slug) ==
    IF slug \in DOMAIN map THEN map ELSE (slug :> DefaultEntry) @@ map

\* the staleness check on the stored and the observed timestamp
Stale(entry, item) ==
    /\ IsString(entry.last_updated_time)
    /\ IsString(item.last_updated_time)
    /\ StringLess(entry.last_updated_time, item.last_updated_time)

\* a switch whose case 'failed' falls through to 'outdated'
NeededFallsThrough(st, options) ==
    CASE st = "unknown"       -> TRUE
      [] st = "partial"       -> options.full
      [] st = "full"          -> FALSE
      [] st = "uninteresting" -> FALSE
      [] st = "failed"        -> TRUE
      [] st = "outdated"      -> TRUE
      [] OTHER                -> FALSE

\* a switch that takes a slug that is listed again for a new one
NeededWhenListed(st, options) ==
    CASE st = "unknown"       -> TRUE
      [] st = "partial"       -> options.full
      [] st = "full"          -> FALSE
      [] st = "uninteresting" -> TRUE
      [] st = "failed"        -> options.retry
      [] st = "outdated"      -> TRUE
      [] OTHER                -> FALSE

\* a switch whose default case asks for the item
NeededUnlessKnown(st, options) ==
    CASE st = "unknown"       -> TRUE
      [] st = "partial"       -> options.full
      [] st = "full"          -> FALSE
      [] st = "uninteresting" -> FALSE
      [] st = "failed"        -> options.retry
      [] st = "outdated"      -> TRUE
      [] OTHER                -> TRUE

\* the switch on the stored status; needed was reset to false before it
Needed(st, options) ==
    CASE st = "unknown"       -> TRUE
      [] st = "partial"       -> options.full
      [] st = "full"          -> FALSE
      [] st = "uninteresting" -> FALSE
      [] st = "failed"        -> options.retry
      [] st = "outdated"      -> TRUE
      [] OTHER                -> FALSE

\* the condition of the revisions before --rehash: needed || options.force
ShouldProcessOld(isNeeded, isOutdated, options) ==
    isNeeded \/ options.force \/ isOutdated

\* if (needed || options.force || options.rehash || outdated)
ShouldProcess(isNeeded, isOutdated, options) ==
    isNeeded \/ options.force \/ options.rehash \/ isOutdated

\* a checkpoint that comes one item late
PaceHitLate(n, p) ==
    IF p = 0 THEN FALSE
    ELSE IF p > 0 THEN n % (p + 1) = 0
    ELSE n % (0 - p) = 0

\* soFar % pace == 0 in JavaScript: x % 0 is NaN, and the sign of the
\* result is the sign of the dividend
PaceHit(n, p) ==
    IF p = 0 THEN FALSE
    ELSE IF p > 0 THEN n % p = 0
    ELSE n % (0 - p) = 0

(***************************************************************************)
(* processTheme / processPlugin and handleThemeInfo / handlePluginInfo     *)
(***************************************************************************)
\* the orchestrators: themattic.ts, pluperfect.ts and the revision of
\* pluperfect.ts before it
Variants == {"themattic", "pluperfect", "pluperfect_prev"}

\* file names of one item: the archive of release v, and the screenshot
ZipName(v) == <<"zip", v>>
ScreenshotName == <<"screenshot", 0>>
FileNames == {ZipName(v) : v \in 1..MaxVersion} \cup {ScreenshotName}

\* { error } of a response that is not ok
ErrorInfo == <<"error">>

\* a metadata body that is JSON and no object: null (false, 0 and "" are
\* treated as it is)
NullInfo == <<"null">>

\* slug and download_link are strings and error is not
ValidInfo(info) == info # ErrorInfo /\ info # Json(0)

\* if (themeInfo)
Truthy(info) == info # NullInfo

MetaOutcomes == IoOutcomes \cup {"invalid"}
\* and with an endpoint that answers 200 with the body null
InfoOutcomes == MetaOutcomes \cup {"null"}

\* a reader that does not trust a cached copy that is no valid record
handleThemeInfoRevalidating(cache, v, force, io) ==
    LET kept == IF force \/ ~ValidInfo(cache) THEN NoFile ELSE cache IN
    IF kept # NoFile
    THEN [threw |-> FALSE, info |-> kept, cache |-> kept, gets |-> 0]
    ELSE CASE io = "http_error" ->
                [threw |-> FALSE, info |-> ErrorInfo, cache |-> kept, gets |-> 1]
           [] io = "io_error" ->
                [threw |-> TRUE, info |-> Undefined, cache |-> kept, gets |-> 1]
           [] io = "invalid" ->
                [threw |-> FALSE, info |-> Json(0), cache |-> Json(0), gets |-> 1]
           [] io = "null" ->
                [threw |-> FALSE, info |-> NullInfo, cache |-> NullInfo, gets |-> 1]
           [] OTHER ->
                [threw |-> FALSE, info |-> Json(v), cache |-> Json(v), gets |-> 1]

\* cache is legacy-theme.json (theme.json is written and removed with it),
\* v the release the API serves
handleThemeInfo(cache, v, force, io) ==
    LET kept == IF force THEN NoFile ELSE cache IN
    IF kept # NoFile
    THEN [threw |-> FALSE, info |-> kept, cache |-> kept, gets |-> 0]
    ELSE CASE io = "http_error" ->
                [threw |-> FALSE, info |-> ErrorInfo, cache |-> kept, gets |-> 1]
           [] io = "io_error" ->
                [threw |-> TRUE, info |-> Undefined, cache |-> kept, gets |-> 1]
           [] io = "invalid" ->
                [threw |-> FALSE, info |-> Json(0), cache |-> Json(0), gets |-> 1]
           [] io = "null" ->
                [threw |-> FALSE, info |-> NullInfo, cache |-> NullInfo, gets |-> 1]
           [] OTHER ->
                [threw |-> FALSE, info |-> Json(v), cache |-> Json(v), gets |-> 1]

\* what the downloader has after the call.  pluperfect.ts destructures the
\* result as [ pluginInfo, migratedInfo ]: handlePluginInfo returns that
\* pair after a fetch, but the parsed record itself, which is not iterable,
\* when it reads the cached copy, and the destructuring throws.
InfoSeen(v, meta) ==
    IF v = "pluperfect" /\ meta.gets = 0
    THEN [meta EXCEPT !.threw = TRUE, !.info = Undefined]
    ELSE meta

\* for (const version in themeInfo.versions): the releases up to v
RECURSIVE VersionZips(_)
VersionZips(v) == IF v = 0 THEN <<>> ELSE VersionZips(v - 1) \o <<ZipName(v)>>

\* a theme downloader that follows the order of the plugin downloader
OptionalAssetsVersionsFirst(variant, v) == VersionZips(v) \o <<ScreenshotName>>

\* the fetches after the primary archive, in the order of the code
OptionalAssets(variant, v) ==
    IF variant = "themattic"
    THEN <<ScreenshotName>> \o VersionZips(v)
    ELSE VersionZips(v) \o <<ScreenshotName>>

AssetPlan(variant, v, options) ==
    <<ZipName(v)>> \o (IF options.full THEN OptionalAssets(variant, v) ELSE <<>>)

\* what the URL of a file serves: a release archive never changes, the
\* screenshot is the one of the current release
Served(name, current) ==
    IF name = ScreenshotName THEN Bytes(name, current) ELSE Bytes(name, name[2])
ServedCut(name, current) ==
    IF name = ScreenshotName THEN Truncated(name, current) ELSE Truncated(name, name[2])

\* status: ok ? (options.full ? 'full' : 'partial') : 'failed'
GroupStatus(ok, options) ==
    IF ok THEN (IF options.full THEN "full" ELSE "partial") ELSE "failed"

\* existing[name]
Lookup(files, name) == IF name \in DOMAIN files THEN files[name] ELSE Undefined

\* the block after processTheme returns: status.map[slug] takes the
\* result's status, when and last_updated_time, and every file of the
\* result is merged with `existing`.  The previous pluperfect.ts assigns
\* status.map[slug] = pluginStatus first: the entry and the result are then
\* one object, existing is the result's own file map, and
\* status.map[slug].files = {} empties the map the loop iterates over.
Existing(variant, entry, result) ==
    IF variant = "pluperfect_prev" THEN result.files ELSE entry.files

MergedNames(variant, result) ==
    IF variant = "pluperfect_prev" THEN {} ELSE DOMAIN result.files

\* a merge that keeps the stored status of an item whose download failed
MergeGroupKeepsStatus(variant, entry, result) ==
    [status |-> IF result.status = "failed" THEN entry.status ELSE result.status,
     when |-> result.when,
     last_updated_time |-> result.last_updated_time,
     files |-> result.files]

MergeGroup(variant, entry, result) ==
    LET existing == Existing(variant, entry, result) IN
    [status |-> result.status,
     when |-> result.when,
     last_updated_time |-> result.last_updated_time,
     files |-> [name \in MergedNames(variant, result) |->
                  mergeDownloadInfo(Lookup(existing, name), result.files[name])]]

(***************************************************************************)
(* State.                                                                  *)
(***************************************************************************)
VARIABLES
    \* the world outside the process
    statusFile,     \* the persisted Status Store
    fs,             \* per slug: the cached raw metadata and the asset files
    upstream,       \* per slug: the release the upstream catalog serves
    \* the process: main and downloadFiles
    pc,             \* "idle", "loop", "decided", "assets", "merge",
                    \* "checkpoint", "done"
    variant,        \* which orchestrator runs
    options,        \* full, force, retry, rehash
    pace,
    themeList,      \* the candidate list, items [slug, last_updated_time]
    idx,            \* position of the for-of loop in themeList
    status,         \* the store in memory
    soFar, success, failure, skipped,
    needed, outdated, changed,
    group,          \* locals of the downloader: ok, files, last_updated_time, todo
    \* bookkeeping of the run, for the properties
    now,            \* Date.now(): the number of the run
    faults,         \* failures of the environment so far
    invoked,        \* calls of the downloader in this run
    gets,           \* network GETs of this run
    sinceSave,      \* items merged since the status file was last written
    saveFailed,     \* a write of the status file failed in this run
    previous,       \* summary of the run before this one
    seen,           \* the slugs that had an entry in a written status file
    \* a call of a pure function, and what it returned
    call, returned

vars == <<statusFile, fs, upstream, pc, variant, options, pace, themeList, idx,
          status, soFar, success, failure, skipped, needed, outdated, changed,
          group, now, faults, invoked, gets, sinceSave, saveFailed,
          previous, seen, call, returned>>

world == <<statusFile, fs, upstream>>

\* an outcome other than "ok" is a failure of the environment
Fault(outcome) == IF outcome = "ok" THEN 0 ELSE 1
CanFail(outcome) == faults + Fault(outcome) <= MaxFaults
Charge(outcome) == faults' = faults + Fault(outcome)
counters == <<soFar, success, failure, skipped>>
config == <<variant, options, pace, themeList, now, previous, call, returned>>

NoOptions == [full |-> FALSE, force |-> FALSE, retry |-> FALSE, rehash |-> FALSE]
OptionSets == [full : BOOLEAN, force : BOOLEAN, retry : BOOLEAN, rehash : BOOLEAN]
\* parseInt accepts every integer: --pace=0 included
Paces == 0..MaxPace

NoGroup == [ok |-> TRUE, files |-> EmptyMap, last_updated_time |-> Undefined,
            todo |-> <<>>]
EmptyStore == [when |-> 0, map |-> EmptyMap]
\* ended: how the process of the run before ended ("none" before the first)
NoPrevious == [clean |-> FALSE, list |-> <<>>, upstream |-> <<>>, map |-> EmptyMap,
               ended |-> "none"]

\* the lists the list collaborator may present: the catalog (with an item
\* that has no slug), and the catalog after "a" left it
SlugLists == {<<"a", NoSlug, "b">>, <<"b">>}

\* the command lines tried on the whole catalog with the default pace:
\* every combination of --full and --retry, --force alone, --rehash alone
FlagSets ==
    {o \in OptionSets : ~(o.force \/ o.rehash)}
    \cup {[NoOptions EXCEPT !.force = TRUE], [NoOptions EXCEPT !.rehash = TRUE]}

\* and without flags: every pace, the shorter list, and the list without
\* timestamps
Configs ==
    [options : FlagSets, pace : {1}, slugs : {<<"a", NoSlug, "b">>},
     stamped : {TRUE}]
    \cup [options : {NoOptions}, pace : Paces, slugs : {<<"a", NoSlug, "b">>},
          stamped : {TRUE}]
    \cup [options : {NoOptions}, pace : {1}, slugs : SlugLists,
          stamped : BOOLEAN]

\* the candidate list: with timestamps (the API lists) or bare slugs (the
\* subversion list)
RECURSIVE ItemList(_, _, _)
ItemList(slugs, up, stamped) ==
    IF slugs = <<>> THEN <<>>
    ELSE <<[slug |-> Head(slugs),
            last_updated_time |->
                IF stamped /\ Head(slugs) # NoSlug
                THEN ToStamp(up[Head(slugs)]) ELSE Undefined]>>
         \o ItemList(Tail(slugs), up, stamped)

\* no function is being called
NoCall == [op |-> "none"]

\* the state before a run of orchestrator v on a mirror that has no status
\* file and no asset: cached is what is at the path of the cached metadata
\* of item "a"
StartOn(v, cached, file) ==
    /\ statusFile = file
    /\ fs = [s \in Slugs |->
               [meta |-> IF s = "a" THEN cached ELSE NoFile,
                files |-> [n \in FileNames |-> NoFile]]]
    /\ upstream = [s \in Slugs |-> 1]
    /\ pc = "idle"
    /\ variant = v
    /\ options = NoOptions
    /\ pace = 1
    /\ themeList = <<>>
    /\ idx = 1
    /\ status = EmptyStore
    /\ soFar = 0 /\ success = 0 /\ failure = 0 /\ skipped = 0
    /\ needed = FALSE /\ outdated = FALSE /\ changed = FALSE
    /\ group = NoGroup
    /\ now = 0
    /\ faults = 0
    /\ invoked = 0 /\ gets = 0 /\ sinceSave = 0 /\ saveFailed = FALSE
    /\ previous = NoPrevious
    /\ seen = {}

Start(v, cached) == StartOn(v, cached, NoStatusFile)

\* the first run on an empty mirror
Init == Start("themattic", NoFile) /\ call = NoCall /\ returned = NoCall

(***************************************************************************)
(* main and downloadFiles.                                                 *)
(***************************************************************************)
Flagless(o) == ~o.full /\ ~o.force /\ ~o.retry /\ ~o.rehash

\* main up to the loop of downloadFiles: the candidate list is obtained,
\* the status is read, and the entries that left the list are marked
StartRun(c) ==
    /\ pc = "idle"
    /\ now < MaxRuns
    /\ LET list == ItemList(c.slugs, upstream, c.stamped) IN
       /\ themeList' = list
       /\ status' = Prune(readDownloadStatus(statusFile, SlugsOf(list)), SlugsOf(list))
    /\ options' = c.options
    /\ pace' = c.pace
    /\ now' = now + 1
    /\ idx' = 1
    /\ soFar' = 0 /\ success' = 0 /\ failure' = 0 /\ skipped' = 0
    /\ needed' = FALSE /\ outdated' = FALSE /\ changed' = FALSE
    /\ group' = NoGroup
    /\ invoked' = 0 /\ gets' = 0 /\ sinceSave' = 0 /\ saveFailed' = FALSE
    /\ pc' = "loop"
    /\ UNCHANGED <<world, faults, variant, previous, seen, call, returned>>

Item == themeList[idx]

\* if (typeof item.slug !== 'string') continue;
SkipNoSlug ==
    /\ pc = "loop"
    /\ idx <= Len(themeList)
    /\ Item.slug = NoSlug
    /\ idx' = idx + 1
    /\ UNCHANGED <<world, faults, pc, config, status, counters, needed, outdated,
                   changed, group, invoked, gets, sinceSave, saveFailed, seen>>

\* a staleness check that leaves a complete item alone
CheckedUnlessFull(entry, item) ==
    IF Stale(entry, item) /\ entry.status # "full"
    THEN [entry EXCEPT !.status = "outdated"] ELSE entry

\* the entry after the staleness check
Checked(entry, item) ==
    IF Stale(entry, item) THEN [entry EXCEPT !.status = "outdated"] ELSE entry

\* one iteration up to the call of the downloader: the entry is created if
\* it is missing, the staleness check, the switch, soFar += 1
Decide ==
    /\ pc = "loop"
    /\ idx <= Len(themeList)
    /\ Item.slug # NoSlug
    /\ LET slug == Item.slug
           map == WithEntry(status.map, slug)
       IN IF WellFormed(map[slug])
          THEN LET entry == Checked(map[slug], Item) IN
               /\ status' = [status EXCEPT !.map = [map EXCEPT ![slug] = entry]]
               /\ needed' = Needed(entry.status, options)
               /\ outdated' = (entry.status = "outdated")
               /\ soFar' = soFar + 1
          ELSE /\ status' = [status EXCEPT !.map = map]
               /\ needed' = FALSE
               /\ outdated' = FALSE
               /\ soFar' = soFar
    /\ pc' = "decided"
    /\ UNCHANGED <<world, faults, config, idx, success, failure, skipped, changed,
                   group, invoked, gets, sinceSave, saveFailed, seen>>

\* the slugs of a written status file
Written(file) == IF file.readable THEN DOMAIN file.map ELSE {}

\* the else branch: the item is skipped
SkipItem ==
    /\ pc = "decided"
    /\ LET entry == status.map[Item.slug] IN
       IF WellFormed(entry)
       THEN /\ ~ShouldProcess(needed, outdated, options)
            /\ skipped' = skipped + 1
            /\ success' = IF variant = "themattic" /\ entry.status \in {"full", "partial"}
                          THEN success + 1 ELSE success
            /\ failure' = IF variant = "themattic" /\ entry.status = "failed"
                          THEN failure + 1 ELSE failure
       ELSE UNCHANGED <<skipped, success, failure>>
    /\ pc' = "checkpoint"
    /\ UNCHANGED <<world, faults, config, idx, status, soFar, needed, outdated,
                   changed, group, invoked, gets, sinceSave, saveFailed, seen>>

\* processTheme up to the first asset: the directories, the metadata
\* (forced when the item is outdated or --force is given), its validation
ProcessInfo(io) ==
    /\ pc = "decided"
    /\ WellFormed(status.map[Item.slug])
    /\ ShouldProcess(needed, outdated, options)
    /\ LET slug == Item.slug
           meta == InfoSeen(variant,
                            handleThemeInfo(fs[slug].meta, upstream[slug],
                                            outdated \/ options.force, io))
       IN /\ IF meta.gets > 0 THEN CanFail(io) ELSE io = "ok"
          /\ fs' = [fs EXCEPT ![slug].meta = meta.cache]
          /\ gets' = gets + meta.gets
          /\ IF meta.threw
             THEN \* caught by the try of processTheme
                  /\ group' = [NoGroup EXCEPT !.ok = FALSE]
                  /\ pc' = "merge"
             ELSE IF ~Truthy(meta.info)
             THEN \* if (themeInfo) has no else: ok is still true
                  /\ group' = NoGroup
                  /\ pc' = "merge"
             ELSE IF ~ValidInfo(meta.info)
             THEN /\ group' = [NoGroup EXCEPT !.ok = FALSE]
                  /\ pc' = "merge"
             ELSE /\ group' = [NoGroup EXCEPT
                                 !.last_updated_time = ToStamp(meta.info[2]),
                                 !.todo = AssetPlan(variant, meta.info[2], options)]
                  /\ pc' = "assets"
    /\ Charge(io)
    /\ invoked' = invoked + 1
    /\ UNCHANGED <<statusFile, upstream, config, idx, status, counters,
                   needed, outdated, changed, sinceSave, saveFailed, seen>>

\* a downloader that gives up the item at the first asset that failed
RemainingUnlessFailed(todo, info) ==
    IF info.status = "failed" THEN <<>> ELSE Tail(todo)

\* the assets still to fetch after one returned its record: whatever the
\* record is, the statements after the call are executed
Remaining(todo, info) == Tail(todo)

\* one downloadZip / downloadFile of processTheme
FetchAsset(io) ==
    /\ pc = "assets"
    /\ LET slug == Item.slug
           name == Head(group.todo)
           cur == fs[slug].files[name]
           r == downloadFile(name, cur,
                             Served(name, upstream[slug]),
                             ServedCut(name, upstream[slug]),
                             options.force, options.rehash, io, now)
       IN /\ IF DownloadNeeded(cur, options.force) \/ options.rehash
             THEN CanFail(io) ELSE io = "ok"
          /\ io = "write_error" => DownloadNeeded(cur, options.force)
          /\ fs' = [fs EXCEPT ![slug].files[name] = r.file]
          /\ gets' = gets + r.gets
          /\ IF r.threw
             THEN \* caught by the try of processTheme
                  /\ group' = [group EXCEPT !.ok = FALSE, !.todo = <<>>]
                  /\ pc' = "merge"
             ELSE /\ group' = [group EXCEPT
                                 !.ok = group.ok /\ r.info.status = "full",
                                 !.files = (name :> r.info) @@ group.files,
                                 !.todo = Remaining(group.todo, r.info)]
                  /\ pc' = IF Remaining(group.todo, r.info) = <<>>
                           THEN "merge" ELSE "assets"
    /\ Charge(io)
    /\ UNCHANGED <<statusFile, upstream, config, idx, status, counters,
                   needed, outdated, changed, invoked, sinceSave, saveFailed, seen>>

\* what processTheme returns
GroupResult ==
    [status |-> GroupStatus(group.ok, options),
     when |-> now,
     files |-> group.files,
     last_updated_time |-> group.last_updated_time]

\* after processTheme returned: the counters and the merge into the store
MergeItem ==
    /\ pc = "merge"
    /\ LET slug == Item.slug
           result == GroupResult
       IN /\ status' = [status EXCEPT
                          !.map[slug] = MergeGroup(variant, status.map[slug], result)]
          /\ success' = IF result.status \in {"full", "partial"} THEN success + 1 ELSE success
          /\ failure' = IF result.status = "failed" THEN failure + 1 ELSE failure
    /\ changed' = TRUE
    /\ sinceSave' = sinceSave + 1
    /\ group' = NoGroup
    /\ pc' = "checkpoint"
    /\ UNCHANGED <<world, faults, config, idx, soFar, skipped, needed, outdated,
                   invoked, gets, saveFailed, seen>>

\* the end of an iteration: if ((soFar % pace) == 0) { if (changed) save;
\* changed = false }.  sv is what the write of the status file does.
Saves == PaceHit(soFar, pace) /\ changed

Checkpoint(sv) ==
    /\ pc = "checkpoint"
    /\ IF Saves THEN CanFail(sv) ELSE sv = "ok"
    /\ Charge(sv)
    /\ changed' = IF PaceHit(soFar, pace) THEN FALSE ELSE changed
    /\ IF Saves
       THEN /\ statusFile' = saveDownloadStatus(statusFile, status, sv)
            /\ sinceSave' = IF sv = "ok" THEN 0 ELSE sinceSave
            /\ saveFailed' = (saveFailed \/ sv # "ok")
            /\ seen' = seen \cup Written(statusFile')
       ELSE UNCHANGED <<statusFile, sinceSave, saveFailed, seen>>
    /\ idx' = idx + 1
    /\ pc' = "loop"
    /\ UNCHANGED <<fs, upstream, config, status, counters, needed,
                   outdated, group, invoked, gets>>

\* a last save guarded like the checkpoint saves of the loop
FinalSaveIfChanged(isChanged) == isChanged

\* the save after the loop is a statement of its own, not inside
\* `if (changed)`
FinalSaveDue(isChanged) == TRUE

\* after the loop: status.when = Date.now() and the unconditional save
FinalSave(sv) ==
    /\ pc = "loop"
    /\ idx > Len(themeList)
    /\ CanFail(sv)
    /\ Charge(sv)
    /\ LET store == [status EXCEPT !.when = now] IN
       /\ status' = store
       /\ statusFile' = IF FinalSaveDue(changed)
                        THEN saveDownloadStatus(statusFile, store, sv)
                        ELSE statusFile
    /\ sinceSave' = IF sv = "ok" THEN 0 ELSE sinceSave
    /\ saveFailed' = (saveFailed \/ sv # "ok")
    /\ seen' = seen \cup Written(statusFile')
    /\ pc' = "done"
    /\ UNCHANGED <<fs, upstream, config, idx, counters, needed,
                   outdated, changed, group, invoked, gets>>

\* the process is gone: nothing of its memory is left
ProcessGone ==
    /\ pc' = "idle"
    /\ idx' = 1
    /\ status' = EmptyStore
    /\ soFar' = 0 /\ success' = 0 /\ failure' = 0 /\ skipped' = 0
    /\ needed' = FALSE /\ outdated' = FALSE /\ changed' = FALSE
    /\ group' = NoGroup
    /\ invoked' = 0 /\ gets' = 0 /\ sinceSave' = 0 /\ saveFailed' = FALSE
    /\ options' = NoOptions
    /\ pace' = 1
    /\ themeList' = <<>>

\* main returns: the process ends
Exit ==
    /\ pc = "done"
    /\ previous' = IF Flagless(options) /\ ~saveFailed
                   THEN [clean |-> TRUE, list |-> themeList,
                         upstream |-> upstream, map |-> statusFile.map,
                         ended |-> "exit"]
                   ELSE [NoPrevious EXCEPT !.ended = "exit"]
    /\ ProcessGone
    /\ UNCHANGED <<world, faults, variant, now, seen, call, returned>>

\* the process is killed at one of its await points
Crash ==
    /\ pc \in {"loop", "decided", "assets", "merge", "checkpoint"}
    /\ faults < MaxFaults
    /\ faults' = faults + 1
    /\ previous' = [NoPrevious EXCEPT !.ended = "killed"]
    /\ ProcessGone
    /\ UNCHANGED <<world, variant, now, seen, call, returned>>

\* the items of the catalog that get new releases
Releasing == {"a"}

\* upstream releases a new version of an item (between two runs: the
\* catalog does not change while a run is in progress)
UpstreamUpdate(s) ==
    /\ pc = "idle"
    /\ s \in Releasing
    /\ upstream[s] < MaxVersion
    /\ upstream' = [upstream EXCEPT ![s] = upstream[s] + 1]
    /\ UNCHANGED <<statusFile, fs, faults, pc, config, idx, status, counters,
                   needed, outdated, changed, group, invoked, gets, sinceSave,
                   saveFailed, seen>>

Next ==
    \/ \E c \in Configs : StartRun(c)
    \/ SkipNoSlug
    \/ Decide
    \/ SkipItem
    \/ \E io \in MetaOutcomes : ProcessInfo(io)
    \/ \E io \in IoOutcomes : FetchAsset(io)
    \/ MergeItem
    \/ \E sv \in SaveOutcomes : Checkpoint(sv)
    \/ \E sv \in SaveOutcomes : FinalSave(sv)
    \/ Exit
    \/ Crash
    \/ \E s \in Slugs : UpstreamUpdate(s)

Spec == Init /\ [][Next]_vars

(***************************************************************************)
(* The program on the mirror an interrupted first run left: the process    *)
(* was killed after handleThemeInfo had written the metadata of item "a"   *)
(* and before the status file was written.                                 *)
(***************************************************************************)
InitResumed ==
    /\ Start("themattic", Json(1))
    /\ call = NoCall /\ returned = NoCall

SpecResumed == InitResumed /\ [][Next]_vars

(***************************************************************************)
(* The program in a harsher environment: the metadata endpoint may answer  *)
(* 200 with the body null, and the disk may fail while the body of an      *)
(* asset is written.  The write stream of downloadFile has no listener for *)
(* its error event: when the event is emitted, the error is thrown outside *)
(* every try block and the process ends.                                   *)
(***************************************************************************)
WriteStreamError ==
    /\ pc = "assets"
    /\ LET slug == Item.slug
           name == Head(group.todo)
       IN /\ DownloadNeeded(fs[slug].files[name], options.force)
          /\ fs' = [fs EXCEPT ![slug].files[name] = ServedCut(name, upstream[slug])]
    /\ faults < MaxFaults
    /\ faults' = faults + 1
    /\ previous' = [NoPrevious EXCEPT !.ended = "uncaught"]
    /\ ProcessGone
    /\ UNCHANGED <<statusFile, upstream, variant, now, seen, call, returned>>

NextAdverse ==
    \/ Next
    \/ ProcessInfo("null")
    \/ FetchAsset("write_error")
    \/ WriteStreamError

SpecAdverse == Init /\ [][NextAdverse]_vars

(***************************************************************************)
(* The same program, run by any of the three orchestrators.                *)
(***************************************************************************)
InitVariants ==
    /\ \E v \in Variants : Start(v, NoFile)
    /\ call = NoCall /\ returned = NoCall

\* the two revisions of pluperfect.ts keep the same status file: between
\* two runs one may be installed in place of the other
PluginVariants == {"pluperfect", "pluperfect_prev"}

Install(v) ==
    /\ pc = "idle"
    /\ now < MaxRuns
    /\ variant \in PluginVariants
    /\ v \in PluginVariants
    /\ v # variant
    /\ variant' = v
    /\ UNCHANGED <<world, faults, pc, options, pace, themeList, now, previous,
                   call, returned, idx, status, counters, needed, outdated,
                   changed, group, invoked, gets, sinceSave, saveFailed, seen>>

NextVariants ==
    \/ Next
    \/ \E v \in Variants : Install(v)

SpecVariants == InitVariants /\ [][NextVariants]_vars

(***************************************************************************)
(* mergeDownloadInfo on its own: one call on any pair of file records.     *)
(***************************************************************************)
DigestValues(alg) ==
    {Undefined} \cup {Digest(alg, Bytes(ZipName(1), v)) : v \in 1..MaxVersion}

FileRecords ==
    [filename : {ZipName(1), ScreenshotName}, status : {"full", "failed"},
     when : {0, 1}, sha256 : DigestValues("sha256"), md5 : DigestValues("md5"),
     sha1 : DigestValues("sha1")]

InitMerge ==
    /\ Start("themattic", NoFile)
    /\ call \in [op : {"mergeDownloadInfo"},
                 existing : FileRecords \cup {Undefined}, recent : FileRecords]
    /\ returned = NoCall

CallMerge ==
    /\ call.op = "mergeDownloadInfo"
    /\ returned = NoCall
    /\ returned' = [op |-> call.op,
                    value |-> mergeDownloadInfo(call.existing, call.recent)]
    /\ UNCHANGED <<world, faults, pc, variant, options, pace, themeList, now,
                   previous, call, idx, status, counters, needed, outdated,
                   changed, group, invoked, gets, sinceSave, saveFailed, seen>>

NextMerge == CallMerge

SpecMerge == InitMerge /\ [][NextMerge]_vars

(***************************************************************************)
(* downloadFile and downloadZip on their own: calls, one after the other,  *)
(* on one path of the mirror.  call holds the arguments of the last call   *)
(* and what was at the path before it, returned what it returned and what  *)
(* is at the path after it.  An archive is fetched with downloadZip, the   *)
(* screenshot with downloadFile; current is the release upstream serves.   *)
(***************************************************************************)
InitFetch ==
    /\ Start("themattic", NoFile)
    /\ call \in {[op |-> "none", name |-> n] : n \in {ZipName(1), ScreenshotName}}
    /\ returned \in {[op |-> "none", path |-> NoPath],
                     [op |-> "none", path |-> PathState(Directory, "rw")]}

\* what the environment can do to a call: a fetch can fail in every way, a
\* read of the existing file can raise an error, anything else succeeds
CallOutcomes(cur, force, needHash) ==
    IF DownloadNeeded(cur, force) THEN FetchOutcomes
    ELSE IF needHash THEN {"ok", "io_error"}
    ELSE {"ok"}

CallDownloadFile(force, needHash, io, current) ==
    /\ call.name = ScreenshotName
    /\ io \in CallOutcomes(returned.path.content, force, needHash)
    /\ LET before == returned.path
           r == downloadFile(call.name, before.content,
                             Served(call.name, current),
                             ServedCut(call.name, current),
                             force, needHash, io, now)
       IN /\ call' = [op |-> "downloadFile", name |-> call.name,
                      before |-> before, force |-> force, needHash |-> needHash,
                      io |-> io, current |-> current]
          /\ returned' = [op |-> "downloadFile", value |-> r,
                          path |-> AfterFetch(before, r)]
    /\ UNCHANGED <<world, faults, pc, variant, options, pace, themeList, now,
                   previous, idx, status, counters, needed, outdated,
                   changed, group, invoked, gets, sinceSave, saveFailed, seen>>

CallDownloadZip(force, needHash, io) ==
    /\ call.name = ZipName(1)
    /\ io \in CallOutcomes(returned.path.content, force, needHash)
    /\ LET before == returned.path
           z == ZipLifecycle(call.name, before,
                             Served(call.name, 1), ServedCut(call.name, 1),
                             [NoOptions EXCEPT !.force = force, !.rehash = needHash],
                             io, now)
       IN /\ call' = [op |-> "downloadZip", name |-> call.name,
                      before |-> before, force |-> force, needHash |-> needHash,
                      io |-> io, current |-> 1]
          /\ returned' = [op |-> "downloadZip", value |-> z.value, path |-> z.path]
    /\ UNCHANGED <<world, faults, pc, variant, options, pace, themeList, now,
                   previous, idx, status, counters, needed, outdated,
                   changed, group, invoked, gets, sinceSave, saveFailed, seen>>

NextFetch ==
    \/ \E force \in BOOLEAN, needHash \in BOOLEAN, io \in FetchOutcomes,
          current \in 1..MaxVersion :
            CallDownloadFile(force, needHash, io, current)
    \/ \E force \in BOOLEAN, needHash \in BOOLEAN, io \in FetchOutcomes :
            CallDownloadZip(force, needHash, io)

SpecFetch == InitFetch /\ [][NextFetch]_vars

(***************************************************************************)
(* Properties.                                                             *)
(***************************************************************************)
\* the item of the iteration has a well-formed entry
AtWellFormedItem == pc = "decided" /\ WellFormed(status.map[Item.slug])

SecondRunIdle ==
    (/\ pc = "done"
     /\ faults = 0
     /\ previous.clean
     /\ Flagless(options) /\ ~saveFailed
     /\ themeList = previous.list
     /\ upstream = previous.upstream)
    => (invoked = 0 /\ gets = 0 /\ statusFile.map = previous.map)

\* s is before t in the lexicographic order of strings
LexBefore(s, t) ==
    \E k \in 0..Len(s) :
        /\ k <= Len(t)
        /\ \A i \in 1..k : s[i] = t[i]
        /\ \/ k = Len(s) /\ k < Len(t)
           \/ k < Len(s) /\ k < Len(t) /\ s[k + 1] < t[k + 1]

\* the entry of the item is stored with an older timestamp than the list has
StoredBefore ==
    /\ Item.slug \in DOMAIN status.map
    /\ status.map[Item.slug].last_updated_time # Undefined
    /\ Item.last_updated_time # Undefined
    /\ LexBefore(status.map[Item.slug].last_updated_time, Item.last_updated_time)

DigestsMatchFiles ==
    (pc = "done" /\ ~saveFailed /\ statusFile.readable) =>
        \A slug \in DOMAIN statusFile.map :
            \A name \in DOMAIN statusFile.map[slug].files :
                \A alg \in {"sha256", "md5", "sha1"} :
                    LET rec == statusFile.map[slug].files[name] IN
                    rec[alg] # Undefined =>
                        rec[alg] = Digest(alg, fs[slug].files[name])

\* C6: each digest of the merged record is the one of recent when recent
\* defines it and otherwise the one of existing (undefined when existing
\* is absent); filename, status and when are the ones of recent.
MergePrefersRecent ==
    returned # NoCall =>
        LET existing == call.existing
            recent == call.recent
            merged == returned.value
        IN /\ \A alg \in {"sha256", "md5", "sha1"} :
                 merged[alg] = IF recent[alg] # Undefined THEN recent[alg]
                               ELSE IF existing = Undefined THEN Undefined
                               ELSE existing[alg]
           /\ merged.filename = recent.filename
           /\ merged.status = recent.status
           /\ merged.when = recent.when

\* existing has sha256 X and recent has sha256 Y: the merge returned Y
MergePrefersRecentSeen ==
    /\ returned # NoCall
    /\ call.existing # Undefined
    /\ call.existing.sha256 # Undefined
    /\ call.recent.sha256 # Undefined
    /\ call.recent.sha256 # call.existing.sha256
    /\ call.recent.md5 = Undefined /\ call.existing.md5 # Undefined
    /\ call.recent.filename # call.existing.filename
    /\ returned.value.sha256 = call.recent.sha256
    /\ returned.value.md5 = call.existing.md5

\* C7: in every orchestrator, a file whose stored record has a sha256 and
\* whose new result has none is stored with the same sha256 after the
\* result of the cycle is merged into the store.
DigestNeverDropped ==
    [][(pc = "merge" /\ pc' = "checkpoint") =>
        \A name \in DOMAIN group.files :
            (/\ name \in DOMAIN status.map[Item.slug].files
             /\ status.map[Item.slug].files[name].sha256 # Undefined
             /\ group.files[name].sha256 = Undefined)
            => /\ name \in DOMAIN status'.map[Item.slug].files
               /\ status'.map[Item.slug].files[name].sha256 =
                      status.map[Item.slug].files[name].sha256]_vars

EntriesKept ==
    /\ pc # "idle" => seen \subseteq DOMAIN status.map
    /\ statusFile.readable => seen \subseteq DOMAIN statusFile.map

\* the slugs of the candidate list of the run that starts
ListedNext == {themeList'[i].slug : i \in 1..Len(themeList')}

\* C10: before the first item is processed, every entry of the store whose
\* slug is not in the candidate list has the status uninteresting and is
\* otherwise as it was stored, and every entry whose slug is in the list is
\* as it was stored.
PruneMarksAbsent ==
    [][(pc = "idle" /\ pc' = "loop" /\ statusFile.readable) =>
        \A slug \in DOMAIN statusFile.map :
            /\ slug \in DOMAIN status'.map
            /\ status'.map[slug] =
                  IF slug \in ListedNext THEN statusFile.map[slug]
                  ELSE [statusFile.map[slug] EXCEPT !.status = "uninteresting"]]_vars

\* a partial item that left the list is uninteresting, its files are kept
PruneMarksAbsentSeen ==
    /\ pc = "loop" /\ idx = 1 /\ soFar = 0
    /\ statusFile.readable
    /\ \E slug \in DOMAIN statusFile.map :
        /\ slug \notin {themeList[i].slug : i \in 1..Len(themeList)}
        /\ statusFile.map[slug].status = "partial"
        /\ status.map[slug].status = "uninteresting"
        /\ status.map[slug].files # EmptyMap
        /\ status.map[slug].files = statusFile.map[slug].files

\* what is at the path of the cached metadata is no valid record: nothing
\* (the fetch failed), a record with an error or without a string slug or
\* download_link, or a body that is no object
NoValidRecord(c) == c \in {NoFile, Json(0), NullInfo}

\* the call of the asset step returned a record with status full
ReturnedFull(name, g) == name \in DOMAIN g.files /\ g.files[name].status = "full"

\* C11: the group status the downloader returns is failed, in both modes,
\* whenever the metadata was not obtained or is not valid, and whenever the
\* fetch of the primary archive (and, in full mode, of any optional asset
\* that is attempted) does not return full; it is partial in partial mode
\* and full in full mode when the metadata is valid and every fetch that is
\* attempted returns full.
GroupStatusAggregation ==
    /\ [][(pc = "decided" /\ pc' \in {"assets", "merge"})
            => IF NoValidRecord(fs'[Item.slug].meta)
               THEN pc' = "merge" /\ GroupStatus(group'.ok, options) = "failed"
               ELSE pc' = "assets" /\ group'.ok]_vars
    /\ [][(pc = "assets" /\ pc' # "idle")
            => LET full == ReturnedFull(Head(group.todo), group') IN
               /\ group'.ok = (group.ok /\ full)
               /\ pc' = "merge" =>
                    GroupStatus(group'.ok, options) =
                        IF ~group'.ok THEN "failed"
                        ELSE IF options.full THEN "full" ELSE "partial"]_vars

\* C12: an exception raised while an item is processed is caught by the
\* downloader, which returns the group status failed, and the loop is never
\* left before the final save by anything the processing of an item raises:
\* a run ends before its final save only when the process is killed from
\* outside.
ExceptionsCaught ==
    /\ [][(pc = "assets" /\ pc' # "idle"
             /\ Head(group.todo) \notin DOMAIN group'.files)
            => (pc' = "merge" /\ ~group'.ok)]_vars
    /\ [][(pc \in {"loop", "decided", "assets", "merge", "checkpoint"}
             /\ pc' = "idle")
            => previous'.ended = "killed"]_vars

\* the asset about to be fetched has a stored record that is failed, of an
\* item that is processed because it is failed and --retry is given, and
\* what the response that was not ok left is at its path
RetryOfFailedFile ==
    /\ pc = "assets"
    /\ options.retry /\ ~options.force
    /\ status.map[Item.slug].status = "failed"
    /\ Head(group.todo) \in DOMAIN status.map[Item.slug].files
    /\ status.map[Item.slug].files[Head(group.todo)].status = "failed"
    /\ status.map[Item.slug].files[Head(group.todo)].when < now
    /\ fs[Item.slug].files[Head(group.todo)] = EmptyFile

\* C13: a file whose stored record is failed after a response that was not
\* ok is fetched again on the next run that processes its item under
\* --retry: a GET is issued for it, and it is recorded as full only when the
\* body of a successful response is at its path.
RetryFetchesAgain ==
    [][(RetryOfFailedFile /\ pc' # "idle")
        => LET name == Head(group.todo) IN
           /\ gets' = gets + 1
           /\ ReturnedFull(name, group')
                => fs'[Item.slug].files[name] = Served(name, upstream[Item.slug])]_vars

\* a call has returned
Called == returned.op # "none"

\* no regular file was at the path of the last call, or force was set
WasNeeded == call.before.content \in {NoFile, Directory} \/ call.force

\* the record has none of the three digests
NoDigests(info) ==
    info.sha256 = Undefined /\ info.md5 = Undefined /\ info.sha1 = Undefined

\* C14: a needed download whose response is not ok returns a record with
\* status failed and without digests, and leaves nothing at the target
\* path, not even an empty file.
FailedFetchLeavesNoFile ==
    (Called /\ WasNeeded /\ call.io = "http_error") =>
        /\ ~returned.value.threw
        /\ returned.value.info.status = "failed"
        /\ NoDigests(returned.value.info)
        /\ returned.path.content = NoFile

\* C15: a needed download whose response is ok and whose body cannot be
\* written to the target file returns a record with status failed, never
\* one with status full.
WriteFailureFails ==
    (Called /\ WasNeeded /\ call.io = "write_error") =>
        /\ ~returned.value.threw
        /\ returned.value.info.status = "failed"

\* C16: a call issues exactly one GET when no regular file is at the target
\* path or force is set, and none otherwise; when it issues the GET, what
\* was at the path has been removed and a new file of this call is there,
\* and one GET is all a call issues whatever the response is.
GetIffNeeded ==
    Called =>
        /\ returned.value.gets =
              IF call.before.content \in {NoFile, Directory} \/ call.force
              THEN 1 ELSE 0
        /\ returned.value.gets = 1 =>
              returned.path.content \in
                  {EmptyFile, Served(call.name, call.current),
                   ServedCut(call.name, call.current)}
        /\ returned.value.gets = 0 => returned.path.content = call.before.content

\* a forced call replaces the screenshot of release 1 by the one of release 2
GetIffNeededSeen ==
    /\ returned.op = "downloadFile"
    /\ call.force
    /\ call.before.content = Bytes(ScreenshotName, 1)
    /\ call.current = 2
    /\ call.io = "ok"
    /\ returned.value.gets = 1
    /\ returned.path.content = Bytes(ScreenshotName, 2)

\* C17: when a regular file is at the target path and force is unset, the
\* call issues no GET and leaves the file as it is; with needHash it returns
\* status full with the three digests of the bytes of the file, or status
\* failed when the file cannot be read; without needHash it returns status
\* full and no digest.
ExistingFileKept ==
    (Called /\ ~WasNeeded) =>
        /\ returned.value.gets = 0
        /\ returned.path = (IF returned.op = "downloadZip"
                            THEN chmod(call.before, "ro") ELSE call.before)
        /\ ~returned.value.threw
        /\ returned.value.info =
              IF ~call.needHash
              THEN FullInfoNoDigest(call.name, now)
              ELSE IF call.io = "ok"
              THEN FullInfo(call.name, now, call.before.content)
              ELSE FailedInfo(call.name, now)

\* C18: after downloadZip returns status full, the archive is at the target
\* path with its complete content and is read-only; this holds as well for
\* a forced call on an archive that was read-only before the call.
ArchiveReadOnlyAndComplete ==
    (returned.op = "downloadZip" /\ ~returned.value.threw
       /\ returned.value.info.status = "full") =>
        /\ returned.path.content = Served(call.name, call.current)
        /\ returned.path.mode = "ro"

\* C19: when the metadata endpoint returns a response that is not ok, or the
\* metadata record has no string slug, has a string error, or has no string
\* download_link, the downloader fetches no asset and returns the group
\* status failed with an empty file map.
MetadataFailureFails ==
    [][(pc = "decided" /\ pc' \in {"assets", "merge"}
          /\ NoValidRecord(fs'[Item.slug].meta))
        => /\ pc' = "merge"
           /\ group'.files = EmptyMap
           /\ [status |-> GroupStatus(group'.ok, options), files |-> group'.files]
                 = [status |-> "failed", files |-> EmptyMap]]_vars

\* C20: the metadata endpoint is contacted for an item only when the
\* metadata is forced (the item is outdated or --force is given) or no
\* cached raw copy is there; when a cached raw copy is there and the
\* metadata is not forced (with --rehash alone as well), no request is made,
\* the cache is left as it is and the downloader goes on with the cached
\* record; a fetch that succeeds leaves the record the endpoint served in
\* the cache.
CachedCopyReused ==
    [][(pc = "decided" /\ pc' \in {"assets", "merge"}) =>
        LET cached == fs[Item.slug].meta
            forceMetadata == outdated \/ options.force
        IN /\ gets' > gets => (forceMetadata \/ cached = NoFile)
           /\ (cached # NoFile /\ ~forceMetadata) =>
                /\ gets' = gets
                /\ fs' = fs
                /\ (ValidInfo(cached) /\ Truthy(cached)) =>
                      /\ pc' = "assets"
                      /\ group'.last_updated_time = ToStamp(cached[2])
                      /\ group'.todo = AssetPlan(variant, cached[2], options)
           /\ (gets' > gets /\ pc' = "assets") =>
                fs'[Item.slug].meta = Json(upstream[Item.slug])]_vars

\* the elements of a sequence
Range(seq) == {seq[i] : i \in 1..Len(seq)}

\* the release of the metadata record the downloader validated
ReleaseOf(g) == CHOOSE v \in 1..MaxVersion : ToStamp(v) = g.last_updated_time

FinalSaveUnconditional ==
    /\ [][(pc = "loop" /\ idx > Len(themeList) /\ pc' # "idle")
            => /\ pc' = "done"
               /\ status' = [status EXCEPT !.when = now]
               /\ (faults' = faults
                     => statusFile' = [readable |-> TRUE, when |-> now,
                                       map |-> status.map])]_vars
    /\ [][pc' = "done" => (pc = "done" \/ (pc = "loop" /\ idx > Len(themeList)))]_vars

\* the second run called the downloader for no item and changed nothing,
\* and the status file carries the timestamp of this run
FinalSaveUnconditionalSeen ==
    /\ pc = "done"
    /\ now = 2
    /\ invoked = 0
    /\ ~changed
    /\ soFar > 0
    /\ statusFile.readable
    /\ statusFile.when = 2

(***************************************************************************)
(* readDownloadStatus on its own: one call on any text of the status file. *)
(***************************************************************************)
\* a file map with one record
OneFile ==
    [n \in {ZipName(1)} |->
       [filename |-> n, status |-> "full", when |-> 1, sha256 |-> Undefined,
        md5 |-> Undefined, sha1 |-> Undefined]]

\* what JSON.parse can give for one entry of the map
PersistedEntries ==
    [status : {"full", "failed", "unknown", NotAString},
     when : {1, NotANumber},
     last_updated_time : {Undefined, ToStamp(MaxVersion)},
     files : {EmptyMap, OneFile, NotAFileMap, NullFiles}]
      \cup {NotAnObject, NullValue}

PersistedMaps ==
    {NullValue, EmptyMap}
      \cup {[s \in {"a"} |-> e] : e \in PersistedEntries}
      \cup {[s \in Slugs |-> IF s = "a" THEN e
                             ELSE [DefaultEntry EXCEPT !.status = "partial", !.when = 1]]
              : e \in PersistedEntries}

PersistedFiles ==
    {NoStatusFile}
      \cup [readable : {TRUE}, when : {0, MaxRuns, NotANumber}, map : PersistedMaps]

InitLoad ==
    /\ Start("themattic", NoFile)
    /\ call \in [op : {"readDownloadStatus"}, file : PersistedFiles,
                 slugs : SUBSET Slugs]
    /\ returned = NoCall

CallLoad ==
    /\ call.op = "readDownloadStatus"
    /\ returned = NoCall
    /\ returned' = [op |-> call.op,
                    value |-> readDownloadStatus(call.file, call.slugs)]
    /\ UNCHANGED <<world, faults, pc, variant, options, pace, themeList, now,
                   previous, call, idx, status, counters, needed, outdated,
                   changed, group, invoked, gets, sinceSave, saveFailed, seen>>

NextLoad == CallLoad

SpecLoad == InitLoad /\ [][NextLoad]_vars

\* typeof x === 'number'
IsNumber(x) == x # NotANumber

\* an entry the rest of the program can use: a status, a time and a map
\* from file names to records
UsableEntry(e) ==
    /\ e \notin {NotAnObject, NullValue}
    /\ e.status # NotAString
    /\ IsNumber(e.when)
    /\ e.files \notin {NotAFileMap, NullFiles}

Loaded == returned.op = "readDownloadStatus"

\* C23: readDownloadStatus returns a store for every text of the status
\* file: default entries for the slugs of the candidate list when the text
\* cannot be read or parsed, the default entry in place of every entry that
\* is not an object with a string status and a numeric when otherwise; and
\* every entry of the returned store has a string status, a numeric when
\* and a files map.
LenientLoad ==
    Loaded =>
      /\ (~call.file.readable =>
            returned.value.map = [s \in call.slugs |-> DefaultEntry])
      /\ ((call.file.readable /\ call.file.map # NullValue) =>
            \A s \in DOMAIN call.file.map :
               LET e == call.file.map[s] IN
                 (e \in {NotAnObject, NullValue} \/ ~WellFormed(e))
                    => returned.value.map[s] = DefaultEntry)
      /\ \A s \in DOMAIN returned.value.map : UsableEntry(returned.value.map[s])

(***************************************************************************)
(* splitFilename on its own.  A string is the sequence of its code points; *)
(* a slug is the name of a directory of the upstream repository: it holds  *)
(* no '/' and is not a dot segment, so that path.join(prefix, name) is the *)
(* two segments with one separator between them.                           *)
(***************************************************************************)
\* the longest slug, and the largest --prefixLength, that are tried
MaxLen == 3
MaxPrefix == 2

\* code points: '+', '-', '/', 'a', 'z', '{' and a Greek letter
Plus == 43
Hyphen == 45
Slash == 47
Z_CODE_POINT == 122
CodePoints == {Hyphen, 97, Z_CODE_POINT, 123, 945}

RECURSIVE StringsUpTo(_)
StringsUpTo(n) ==
    IF n = 0 THEN {<<>>}
    ELSE LET shorter == StringsUpTo(n - 1)
         IN shorter \cup {Append(s, c) : s \in {t \in shorter : Len(t) = n - 1},
                                         c \in CodePoints}

\* 'z'.repeat(n)
RECURSIVE Repeat(_, _)
Repeat(c, n) == IF n = 0 THEN <<>> ELSE <<c>> \o Repeat(c, n - 1)

\* name.substring(0, n) for n >= 0
Substring(name, n) == SubSeq(name, 1, IF n < Len(name) THEN n ELSE Len(name))

\* path.join of two such segments: an empty segment is ignored
PathJoin(a, b) ==
    IF a = <<>> THEN b ELSE IF b = <<>> THEN a ELSE a \o <<Slash>> \o b

unicodePrefix(prefixLength) ==
    IF prefixLength > 0 THEN Repeat(Z_CODE_POINT, prefixLength) \o <<Plus>> ELSE <<>>

\* a test that sends 'z' itself to the overflow directory
PastZOrZ(c) == c >= Z_CODE_POINT

\* nameFirst && (nameFirst > Z_CODE_POINT)
PastZ(c) == c # 0 /\ c > Z_CODE_POINT

\* a locator that is the shard directory alone
splitFilenameBucket(name, prefixLength) ==
    IF prefixLength > 0 /\ Len(name) > 0
    THEN IF PastZ(name[1])
         THEN unicodePrefix(prefixLength)
         ELSE Substring(name, prefixLength)
    ELSE name

splitFilename(name, prefixLength) ==
    IF prefixLength > 0 /\ Len(name) > 0
    THEN IF PastZ(name[1])
         THEN PathJoin(unicodePrefix(prefixLength), name)
         ELSE PathJoin(Substring(name, prefixLength), name)
    ELSE name

InitSplit ==
    /\ Start("themattic", NoFile)
    /\ call \in [op : {"splitFilename"}, name : StringsUpTo(MaxLen),
                 prefixLength : 0..MaxPrefix]
    /\ returned = NoCall

CallSplit ==
    /\ call.op = "splitFilename"
    /\ returned = NoCall
    /\ returned' = [op |-> call.op,
                    value |-> splitFilename(call.name, call.prefixLength)]
    /\ UNCHANGED <<world, faults, pc, variant, options, pace, themeList, now,
                   previous, call, idx, status, counters, needed, outdated,
                   changed, group, invoked, gets, sinceSave, saveFailed, seen>>

NextSplit == CallSplit

SpecSplit == InitSplit /\ [][NextSplit]_vars

\* C24: for N > 0 and a non-empty id whose first code point is at most that
\* of 'z', splitFilename(id, N) is the first N characters of id, a
\* separator, and the whole id; for N > 0 and a first code point past 'z'
\* it is 'z' N times, '+', a separator and the whole id, the same prefix
\* for every such id; for N = 0 it is the id.
ShardLocator ==
    returned.op = "splitFilename" =>
      LET id == call.name
          N == call.prefixLength
          first == IF Len(id) < N THEN id ELSE SubSeq(id, 1, N)
      IN /\ (N > 0 /\ id # <<>> /\ id[1] <= Z_CODE_POINT)
               => returned.value = first \o <<Slash>> \o id
         /\ (N > 0 /\ id # <<>> /\ id[1] > Z_CODE_POINT)
               => /\ Len(returned.value) = N + 2 + Len(id)
                  /\ \A i \in 1..N : returned.value[i] = Z_CODE_POINT
                  /\ returned.value[N + 1] = Plus
                  /\ returned.value[N + 2] = Slash
                  /\ SubSeq(returned.value, N + 3, N + 2 + Len(id)) = id
         /\ N = 0 => returned.value = id

\* "zz" is sharded under its own first two letters
ShardedSeen ==
    /\ returned.op = "splitFilename"
    /\ call.prefixLength = 2
    /\ call.name = <<Z_CODE_POINT, Z_CODE_POINT>>
    /\ returned.value = <<Z_CODE_POINT, Z_CODE_POINT, Slash, Z_CODE_POINT, Z_CODE_POINT>>

(***************************************************************************)
(* The migration transforms migratePluginInfo (lib/plugins.ts) and         *)
(* migrateThemeInfo (lib/themes.ts) on their own.                          *)
(*                                                                         *)
(* JavaScript objects live in a heap: a function from object identities to *)
(* objects, an object a function from keys to values.  A value is a tuple: *)
(* undefined, a number, a string, a URL, an empty array, or a reference to *)
(* an object.  The record passed in is the object "in", the record         *)
(* returned the object "out"; a property that is missing is undefined.     *)
(***************************************************************************)
Num(n) == <<"num", n>>
Str(s) == <<"str", s>>
Ref(id) == <<"ref", id>>
EmptyArray == <<"array">>
\* a URL string: origin, directories of the path, last segment, query
Url(origin, dir, file, query) == <<"url", origin, dir, file, query>>

IsRef(v) == v # Undefined /\ v[1] = "ref"
IsUrl(v) == v # Undefined /\ v[1] = "url"
IsStr(v) == v # Undefined /\ v[1] = "str"
\* if (v): undefined and 0 are falsy
IsTruthy(v) == v \notin {Undefined, Num(0)}

\* `${author}@wordpress.org`, and author.indexOf('@') >= 0
WithOrg(v) == <<"str", v[2], "@wordpress.org">>
HasAt(v) == Len(v) > 2

\* the value of --downloadsBaseUrl: an origin and the directories of its
\* path; the path ends with '/'
BaseUrl(origin, dir) == <<"base", origin, dir>>
Bases == {BaseUrl("mirror", <<>>), BaseUrl("mirror", <<"sub">>)}

\* new URL(reference, base).toString(): a reference that begins with '/'
\* replaces the path of the base, any other is resolved in its directory
NewUrl(absolute, dir, file, query, base) ==
    Url(base[2], IF absolute THEN dir ELSE base[3] \o dir, file, query)

\* url.substring(url.lastIndexOf('/') + 1): the last segment and the query
getBasename(url) == <<url[4], url[5]>>

\* splitFilename(slug, prefixLength) of the one item, and the directories
\* part_008:163-165 derives from it with the default --themesDir
Split == "ab/abc"
ThemeLiveDir == <<"themes", "live", "legacy", Split>>
ThemeReadOnlyDir == <<"themes", "read-only", "legacy", Split>>

\* lib/plugins.ts
getBannerUrl(base, split, url) ==
    NewUrl(TRUE, <<"plugins", "live", "legacy", split, "banners">>,
           getBasename(url)[1], getBasename(url)[2], base)

getPreviewUrl(base, split) ==
    NewUrl(TRUE, <<"plugins", "live", "legacy", split, "preview">>, "index.html", "", base)

\* kleen.search = ''
getScreenshotUrl(base, split, url) ==
    NewUrl(TRUE, <<"plugins", "live", "legacy", split, "screenshots">>,
           getBasename(url)[1], "", base)

getZipUrl(base, split, existing) ==
    NewUrl(TRUE, <<"plugins", "read-only", "legacy", split>>,
           getBasename(existing)[1], getBasename(existing)[2], base)

\* lib/themes.ts
getThemeScreenshotUrl(base, themeLiveDir, url) ==
    NewUrl(FALSE, themeLiveDir \o <<"screenshots">>,
           getBasename(url)[1], getBasename(url)[2], base)

getThemeZipUrl(base, themeReadOnlyDir, existing) ==
    NewUrl(FALSE, themeReadOnlyDir, getBasename(existing)[1],
           getBasename(existing)[2], base)

\* heap operations: a new object, an assignment to a property
New(h, id, obj) == [x \in DOMAIN h \cup {id} |-> IF x = id THEN obj ELSE h[x]]
Assign(h, id, key, v) == [h EXCEPT ![id][key] = v]
\* { ...object }
Spread(h, id, from) == New(h, id, h[from])

\* kleen.ratings = { '1': 0, '2': 0, '3': 0, '4': 0, '5': 0 }
ZeroRatings == [k \in {"1", "2", "3", "4", "5"} |-> Num(0)]

\* a redaction that forgets the histogram
KeepRatings(h) == h

SetRatings(h) == Assign(New(h, "out.ratings", ZeroRatings), "out", "ratings", Ref("out.ratings"))

\* if (kleen.banners && !Array.isArray(kleen.banners)) { ... }
PluginBanners(h, base, split) ==
    IF IsRef(h["out"].banners)
    THEN LET old == h[h["out"].banners[2]]
             rewritten(v) == IF IsUrl(v) THEN getBannerUrl(base, split, v) ELSE v
         IN Assign(New(h, "out.banners",
                       [old EXCEPT !.high = rewritten(@), !.low = rewritten(@)]),
                   "out", "banners", Ref("out.banners"))
    ELSE h

PluginDownloadLink(h, base, split) ==
    IF IsTruthy(h["out"].download_link)
    THEN Assign(h, "out", "download_link", getZipUrl(base, split, h["out"].download_link))
    ELSE h

PluginPreview(h, base, split) ==
    IF IsTruthy(h["out"].preview_link)
    THEN Assign(h, "out", "preview_link", getPreviewUrl(base, split))
    ELSE h

\* kleen.screenshots = { ...kleen.screenshots }: the map is copied, the
\* objects in it are not, and kleen.screenshots[key].src = updated assigns
\* to them
PluginScreenshots(h, base, split) ==
    IF IsRef(h["out"].screenshots)
    THEN LET map == h[h["out"].screenshots[2]]
             infos == {map[k][2] : k \in DOMAIN map}
             copied == Assign(New(h, "out.screenshots", map),
                              "out", "screenshots", Ref("out.screenshots"))
         IN [x \in DOMAIN copied |->
               IF x \in infos /\ IsTruthy(copied[x].src)
               THEN [copied[x] EXCEPT !.src = getScreenshotUrl(base, split, @)]
               ELSE copied[x]]
    ELSE h

\* kleen.sections = { ...kleen.sections }; reviews = undefined
PluginSections(h) ==
    IF IsRef(h["out"].sections)
    THEN LET old == h[h["out"].sections[2]]
         IN Assign(New(h, "out.sections",
                       [old EXCEPT !.reviews = IF IsStr(@) THEN Undefined ELSE @]),
                   "out", "sections", Ref("out.sections"))
    ELSE h

\* the body of the loop over kleen.versions
PluginVersion(base, split, version, v) ==
    IF version = "trunk" THEN Undefined
    ELSE IF IsTruthy(v) THEN getZipUrl(base, split, v) ELSE v

PluginVersions(h, base, split) ==
    IF IsRef(h["out"].versions)
    THEN LET old == h[h["out"].versions[2]]
         IN Assign(New(h, "out.versions",
                       [k \in DOMAIN old |-> PluginVersion(base, split, k, old[k])]),
                   "out", "versions", Ref("out.versions"))
    ELSE h

migratePluginInfo(base, split, heap) ==
    LET h1 == Assign(Spread(heap, "out", "in"), "out", "active_installs", Num(0))
        h2 == PluginBanners(h1, base, split)
        h3 == PluginDownloadLink(h2, base, split)
        h4 == Assign(h3, "out", "num_ratings", Num(0))
        h5 == PluginPreview(h4, base, split)
        h6 == SetRatings(Assign(h5, "out", "rating", Num(0)))
        h7 == PluginScreenshots(h6, base, split)
        h8 == PluginSections(h7)
        h9 == Assign(Assign(h8, "out", "support_threads", Num(0)),
                     "out", "support_threads_resolved", Num(0))
    IN PluginVersions(h9, base, split)

\* the two branches on kleen.author: a string is replaced in the copy, the
\* property of an author object is assigned in the object itself
ThemeAuthor(h) ==
    LET author == h["out"].author IN
      IF IsStr(author) /\ ~HasAt(author)
      THEN Assign(h, "out", "author", WithOrg(author))
      ELSE IF IsRef(author) /\ IsTruthy(h[author[2]].user_nicename)
                /\ ~HasAt(h[author[2]].user_nicename)
      THEN Assign(h, author[2], "user_nicename", WithOrg(h[author[2]].user_nicename))
      ELSE h

ThemeUrls(h, base, themeLiveDir, themeReadOnlyDir) ==
    LET h1 == Assign(h, "out", "preview_url",
                     NewUrl(FALSE, themeLiveDir \o <<"preview">>, "index.html", "", base))
        h2 == IF IsTruthy(h1["out"].screenshot_url)
              THEN Assign(h1, "out", "screenshot_url",
                          getThemeScreenshotUrl(base, themeLiveDir, h1["out"].screenshot_url))
              ELSE h1
    IN IF IsTruthy(h2["out"].download_link)
       THEN Assign(h2, "out", "download_link",
                   getThemeZipUrl(base, themeReadOnlyDir, h2["out"].download_link))
       ELSE h2

\* for (const version in kleen.versions) kleen.versions[version] = getZipUrl(..)
ThemeVersions(h, base, themeReadOnlyDir) ==
    IF IsRef(h["out"].versions)
    THEN LET old == h[h["out"].versions[2]]
         IN Assign(New(h, "out.versions",
                       [k \in DOMAIN old |-> getThemeZipUrl(base, themeReadOnlyDir, old[k])]),
                   "out", "versions", Ref("out.versions"))
    ELSE h

\* the description of the record, or of the list item, becomes
\* sections.description
ThemeDescription(h, fromAPI) ==
    LET kleen == h["out"]
        sections == IF IsRef(kleen.sections) THEN h[kleen.sections[2]] ELSE Undefined
        deepened(text) ==
            Assign(New(h, "out.sections", [sections EXCEPT !.description = text]),
                   "out", "sections", Ref("out.sections"))
        fresh(text) ==
            Assign(New(h, "out.sections", [description |-> text]),
                   "out", "sections", Ref("out.sections"))
    IN IF IsStr(kleen.description)
       THEN IF ~IsTruthy(kleen.sections)
            THEN Assign(fresh(kleen.description), "out", "description", Undefined)
            ELSE IF sections.description = kleen.description
            THEN Assign(h, "out", "description", Undefined)
            ELSE IF ~IsStr(sections.description)
            THEN deepened(kleen.description)
            ELSE h
       ELSE IF IsStr(fromAPI.description)
       THEN IF ~IsTruthy(kleen.sections)
            THEN fresh(fromAPI.description)
            ELSE IF ~IsStr(sections.description)
            THEN deepened(fromAPI.description)
            ELSE h
       ELSE h

ThemeCounters(h) ==
    LET h1 == SetRatings(Assign(h, "out", "rating", Num(0)))
        h2 == Assign(h1, "out", "num_ratings", Num(0))
        h3 == Assign(h2, "out", "active_installs", Num(0))
    IN Assign(h3, "out", "downloaded", Num(0))

\* the list item has no parent and no template
migrateThemeInfo(base, themeLiveDir, themeReadOnlyDir, heap, fromAPI) ==
    LET h1 == ThemeAuthor(Spread(heap, "out", "in"))
        h2 == ThemeUrls(h1, base, themeLiveDir, themeReadOnlyDir)
        h3 == ThemeVersions(h2, base, themeReadOnlyDir)
        h4 == ThemeDescription(h3, fromAPI)
    IN ThemeCounters(h4)

(***************************************************************************)
(* Upstream records.                                                       *)
(***************************************************************************)
UpstreamZip(version) == Url("upstream", <<"plugin">>, version, "")
UpstreamImage(file) == Url("upstream", <<"abc", "assets">>, file, "rev=1")

\* the versions property: missing, one release, or a release and trunk
VersionMaps ==
    {[k \in {"1.0"} |-> UpstreamZip(k)], [k \in {"1.0", "trunk"} |-> UpstreamZip(k)]}

\* the objects an upstream record can refer to
Nested(versions, src, sectionsDescription) ==
    [id \in {"in.ratings", "in.banners", "in.screenshots", "in.screenshots.1",
             "in.sections", "in.versions", "in.tags", "in.author"} |->
       CASE id = "in.ratings" -> [k \in {"1", "2", "3", "4", "5"} |-> Num(3)]
         [] id = "in.banners" -> [high |-> UpstreamImage("banner-1544x500.png"),
                                  low |-> UpstreamImage("banner-772x250.png")]
         [] id = "in.screenshots" -> [k \in {"1"} |-> Ref("in.screenshots.1")]
         [] id = "in.screenshots.1" -> [src |-> src, caption |-> Str("caption")]
         [] id = "in.sections" -> [description |-> sectionsDescription,
                                   reviews |-> Str("reviews")]
         [] id = "in.versions" -> versions
         [] id = "in.tags" -> [blog |-> Str("Blog")]
         [] id = "in.author" -> [user_nicename |-> Str("nick"),
                                 display_name |-> Str("Nick")]]

Counters == {Undefined, Num(0), Num(7)}
Ratings == {Undefined, Num(90)}
Optional(v) == {Undefined, v}

PluginHeaps ==
    {New(Nested(versions, src, Str("d")), "in",
         [slug |-> Str("abc"), active_installs |-> c, support_threads |-> c,
          support_threads_resolved |-> c, rating |-> r, num_ratings |-> r,
          ratings |-> IF r = Undefined THEN Undefined ELSE Ref("in.ratings"),
          banners |-> b, download_link |-> link, preview_link |-> preview,
          screenshots |-> shots, sections |-> secs,
          versions |-> IF versioned THEN Ref("in.versions") ELSE Undefined,
          tags |-> Ref("in.tags")]) :
       c \in Counters, r \in Ratings,
       b \in {Undefined, EmptyArray, Ref("in.banners")},
       link \in Optional(UpstreamZip("abc.1.0.zip")),
       preview \in Optional(Url("upstream", <<"abc">>, "preview", "")),
       shots \in Optional(Ref("in.screenshots")),
       src \in Optional(UpstreamImage("screenshot-1.png")),
       secs \in Optional(Ref("in.sections")),
       versioned \in BOOLEAN, versions \in VersionMaps}

ThemeHeaps ==
    {New(Nested(versions, Undefined, sd), "in",
         [slug |-> Str("abc"), author |-> author, active_installs |-> c,
          downloaded |-> c, rating |-> r, num_ratings |-> r,
          ratings |-> IF r = Undefined THEN Undefined ELSE Ref("in.ratings"),
          preview_url |-> Undefined, screenshot_url |-> shot,
          download_link |-> link, description |-> d, sections |-> secs,
          versions |-> IF versioned THEN Ref("in.versions") ELSE Undefined,
          tags |-> Ref("in.tags")]) :
       author \in {Undefined, Str("nick"), Ref("in.author")},
       c \in Counters, r \in Ratings,
       shot \in Optional(UpstreamImage("screenshot.png")),
       link \in Optional(UpstreamZip("abc.1.0.zip")),
       d \in Optional(Str("d")), sd \in Optional(Str("d")),
       secs \in Optional(Ref("in.sections")),
       versioned \in BOOLEAN, versions \in VersionMaps}

InitMigrate ==
    /\ Start("themattic", NoFile)
    /\ \/ call \in [op : {"migratePluginInfo"}, base : Bases, heap : PluginHeaps]
       \/ call \in [op : {"migrateThemeInfo"}, base : Bases, heap : ThemeHeaps,
                    fromAPI : [description : Optional(Str("list"))]]
    /\ returned = NoCall

CallMigratePlugin ==
    /\ call.op = "migratePluginInfo"
    /\ returned = NoCall
    /\ returned' = [op |-> call.op,
                    heap |-> migratePluginInfo(call.base, Split, call.heap)]
    /\ UNCHANGED <<world, faults, pc, variant, options, pace, themeList, now,
                   previous, call, idx, status, counters, needed, outdated,
                   changed, group, invoked, gets, sinceSave, saveFailed, seen>>

CallMigrateTheme ==
    /\ call.op = "migrateThemeInfo"
    /\ returned = NoCall
    /\ returned' = [op |-> call.op,
                    heap |-> migrateThemeInfo(call.base, ThemeLiveDir, ThemeReadOnlyDir,
                                              call.heap, call.fromAPI)]
    /\ UNCHANGED <<world, faults, pc, variant, options, pace, themeList, now,
                   previous, call, idx, status, counters, needed, outdated,
                   changed, group, invoked, gets, sinceSave, saveFailed, seen>>

NextMigrate == CallMigratePlugin \/ CallMigrateTheme

SpecMigrate == InitMigrate /\ [][NextMigrate]_vars

Migrated == returned.op \in {"migratePluginInfo", "migrateThemeInfo"}

\* the objects a value refers to, and the objects reachable from an object
RefsOf(h, id) == {h[id][k][2] : k \in {x \in DOMAIN h[id] : IsRef(h[id][x])}}
RECURSIVE Reachable(_, _, _)
Reachable(h, ids, depth) ==
    IF depth = 0 THEN ids
    ELSE Reachable(h, ids \cup UNION {RefsOf(h, id) : id \in ids}, depth - 1)

\* C25: after migratePluginInfo / migrateThemeInfo returns, every object
\* of the record passed in (the record, its screenshots, banners, versions,
\* sections and author) is what it was before the call, and no object of
\* the input is reachable from the record returned.
MigrationLeavesInput ==
    Migrated =>
      /\ \A id \in DOMAIN call.heap : returned.heap[id] = call.heap[id]
      /\ Reachable(returned.heap, {"out"}, 3) \cap DOMAIN call.heap = {}

\* C26: for every upstream record, whatever its counters and whether or
\* not it has them, the migrated record has rating 0, a ratings histogram
\* with exactly the buckets 1 to 5, all 0, num_ratings 0 and
\* active_installs 0, and support_threads 0 and support_threads_resolved 0
\* for a plugin, downloaded 0 for a theme.
MigrationRedacts ==
    Migrated =>
      LET out == returned.heap["out"] IN
        /\ out.rating = Num(0)
        /\ IsRef(out.ratings)
        /\ DOMAIN returned.heap[out.ratings[2]] = {"1", "2", "3", "4", "5"}
        /\ \A k \in {"1", "2", "3", "4", "5"} : returned.heap[out.ratings[2]][k] = Num(0)
        /\ out.num_ratings = Num(0)
        /\ out.active_installs = Num(0)
        /\ (returned.op = "migratePluginInfo"
              => out.support_threads = Num(0) /\ out.support_threads_resolved = Num(0))
        /\ (returned.op = "migrateThemeInfo" => out.downloaded = Num(0))

\* a plugin record with a rating, a histogram and non-zero counters was
\* migrated
MigrationRedactsSeen ==
    /\ returned.op = "migratePluginInfo"
    /\ call.heap["in"].rating = Num(90)
    /\ call.heap["in"].ratings = Ref("in.ratings")
    /\ call.heap["in"].active_installs = Num(7)
    /\ call.heap["in"].support_threads = Num(7)
    /\ returned.heap["out"].active_installs = Num(0)

\* p is the beginning of s
HasPrefix(p, s) == Len(p) <= Len(s) /\ SubSeq(s, 1, Len(p)) = p

\* the URL begins with the text of the base URL
BeginsWith(url, base) == url[2] = base[2] /\ HasPrefix(base[3], url[3])

\* the asset URLs of a record on a heap, by field: the primary archive,
\* the versions but trunk, the screenshots, the banners that are strings
AssetUrls(h, root) ==
    LET rec == h[root]
        has(field) == field \in DOMAIN rec /\ IsRef(rec[field])
        versions == IF has("versions") THEN h[rec.versions[2]] ELSE <<>>
        screenshots == IF has("screenshots") THEN h[rec.screenshots[2]] ELSE <<>>
        banners == IF has("banners") THEN h[rec.banners[2]] ELSE <<>>
    IN {<<"download_link", rec.download_link>>}
         \cup {<<"version", k, versions[k]>> : k \in DOMAIN versions \ {"trunk"}}
         \cup {<<"screenshot", k, h[screenshots[k][2]].src>> : k \in DOMAIN screenshots}
         \cup {<<"banner", k, banners[k]>> : k \in DOMAIN banners}
         \cup (IF "screenshot_url" \in DOMAIN rec
               THEN {<<"screenshot_url", rec.screenshot_url>>} ELSE {})

Last(t) == t[Len(t)]

\* the same field of the record as it was passed in
Original(field) ==
    CHOOSE o \in AssetUrls(call.heap, "in") : SubSeq(o, 1, Len(o) - 1) = SubSeq(field, 1, Len(field) - 1)

\* C27: for every configured mirror base URL and every upstream record,
\* the primary archive URL, the archive URL of every version but trunk,
\* every screenshot URL and every string banner URL of the migrated record
\* begins with the base URL, lies under the shard path of the item, ends
\* with the file name of the original URL, and is no upstream URL.
MigrationRewritesUrls ==
    Migrated =>
      \A field \in AssetUrls(returned.heap, "out") :
         IsUrl(Last(Original(field))) =>
            /\ IsUrl(Last(field))
            /\ BeginsWith(Last(field), call.base)
            /\ \E i \in 1..Len(Last(field)[3]) : Last(field)[3][i] = Split
            /\ Last(field)[4] = Last(Original(field))[4]
            /\ Last(field)[2] # "upstream"

\* the versions of the returned record, and of the record passed in
VersionsOut ==
    IF IsRef(returned.heap["out"].versions)
    THEN returned.heap[returned.heap["out"].versions[2]] ELSE <<>>
VersionsIn ==
    IF IsRef(call.heap["in"].versions)
    THEN call.heap[call.heap["in"].versions[2]] ELSE <<>>

\* C28: in the migrated record of a plugin and of a theme alike, the
\* version named trunk has no archive URL, and every other named version
\* has a mirror URL.
TrunkIsReserved ==
    Migrated =>
      /\ DOMAIN VersionsOut = DOMAIN VersionsIn
      /\ \A k \in DOMAIN VersionsOut :
           IF k = "trunk" THEN VersionsOut[k] = Undefined
           ELSE IsUrl(VersionsOut[k]) /\ VersionsOut[k][2] = call.base[2]

(***************************************************************************)
(* The writes of one download.  downloadFile of part_005 hands every chunk *)
(* of the body to a write stream (output.write, output.close) and awaits   *)
(* neither; the revision of lib/downloads.ts starts Deno.writeFile and     *)
(* does not await its promise.  The stream, or the runtime, writes the     *)
(* chunks it holds to the file on its own, and closes the file when the    *)
(* last chunk is written.  call is the activation of the download: the     *)
(* chunks of the body, those handed over (queued) and those in the file    *)
(* (flushed), and where the caller is.                                     *)
(***************************************************************************)
\* chunks of the largest body
MaxChunks == 3

InitStream ==
    /\ Start("themattic", NoFile)
    /\ call \in [op : {"downloadFile", "downloadZip"}, revision : {"stream", "writeFile"},
                 body : 1..MaxChunks, queued : {0}, flushed : {0},
                 closing : {FALSE}, closed : {FALSE}, at : {"loop"}]
    /\ returned = NoCall

StreamFrame ==
    UNCHANGED <<world, faults, pc, variant, options, pace, themeList, now,
                previous, idx, status, counters, needed, outdated,
                changed, group, invoked, gets, sinceSave, saveFailed, seen>>

\* for await (const chunk of response.body) { ...; output.write(chunk) }
WriteChunk ==
    /\ call.at = "loop" /\ call.revision = "stream"
    /\ call.queued < call.body
    /\ call' = [call EXCEPT !.queued = @ + 1]
    /\ UNCHANGED returned
    /\ StreamFrame

\* output.close(); return { status: 'full', ... }
CloseAndReturn ==
    /\ call.at = "loop" /\ call.revision = "stream"
    /\ call.queued = call.body
    /\ call' = [call EXCEPT !.closing = TRUE, !.at = "returned"]
    /\ returned' = [op |-> call.op, value |-> [status |-> "full"]]
    /\ StreamFrame

\* Deno.writeFile(targetFile, contents, ..); return { status: 'full', ... }
WriteFileAndReturn ==
    /\ call.at = "loop" /\ call.revision = "writeFile"
    /\ call' = [call EXCEPT !.queued = call.body, !.closing = TRUE, !.at = "returned"]
    /\ returned' = [op |-> call.op, value |-> [status |-> "full"]]
    /\ StreamFrame

\* the stream writes one of the chunks it holds
Flush ==
    /\ call.op \in {"downloadFile", "downloadZip"}
    /\ call.flushed < call.queued
    /\ call' = [call EXCEPT !.flushed = @ + 1]
    /\ UNCHANGED returned
    /\ StreamFrame

\* the file is closed after the last chunk
CloseDone ==
    /\ call.op \in {"downloadFile", "downloadZip"}
    /\ call.closing /\ ~call.closed
    /\ call.flushed = call.queued
    /\ call' = [call EXCEPT !.closed = TRUE]
    /\ UNCHANGED returned
    /\ StreamFrame

\* downloadZip: await Deno.chmod(targetFile, 0o444) after downloadFile
SetReadOnly ==
    /\ call.op = "downloadZip" /\ call.at = "returned"
    /\ call' = [call EXCEPT !.at = "readonly"]
    /\ UNCHANGED returned
    /\ StreamFrame

\* the caller goes on to the next asset, or the next item
NextAsset ==
    /\ \/ call.op = "downloadZip" /\ call.at = "readonly"
       \/ call.op = "downloadFile" /\ call.at = "returned"
    /\ call' = [call EXCEPT !.at = "next"]
    /\ UNCHANGED returned
    /\ StreamFrame

NextStream ==
    \/ WriteChunk
    \/ CloseAndReturn
    \/ WriteFileAndReturn
    \/ Flush
    \/ CloseDone
    \/ SetReadOnly
    \/ NextAsset

SpecStream == InitStream /\ [][NextStream]_vars

\* C29: when downloadFile has returned, hence when downloadZip sets the
\* file read-only and when the next fetch begins, the body is wholly in
\* the target file and the file is closed.
WritesDoneAtReturn ==
    (call.op \in {"downloadFile", "downloadZip"}
       /\ call.at \in {"returned", "readonly", "next"})
      => call.flushed = call.body /\ call.closed

\* C30: when a needed item was processed, the stored file map of the item
\* holds, after the merge, a record for every file name of the result, and
\* still holds the record of every file name that was stored before and is
\* not in the result.
MergeKeepsOtherFiles ==
    [][(pc = "merge" /\ pc' = "checkpoint") =>
         LET before == status.map[Item.slug].files
             after == status'.map[Item.slug].files
         IN /\ \A name \in DOMAIN group.files : name \in DOMAIN after
            /\ \A name \in DOMAIN before \ DOMAIN group.files :
                 name \in DOMAIN after /\ after[name] = before[name]]_vars

(***************************************************************************)
(* The program on a status file that another tool, or a later revision,    *)
(* has written: the entry of item "b" has a status that is a string and is *)
(* none of the statuses of the switch.                                     *)
(***************************************************************************)
StatusEnum == {"unknown", "partial", "full", "uninteresting", "failed", "outdated"}

ForeignFile ==
    [readable |-> TRUE, when |-> 0,
     map |-> [s \in {"b"} |->
                [status |-> "paused", when |-> 0,
                 last_updated_time |-> ToStamp(1), files |-> EmptyMap]]]

InitForeign ==
    /\ StartOn("themattic", NoFile, ForeignFile)
    /\ call = NoCall /\ returned = NoCall

SpecForeign == InitForeign /\ [][Next]_vars

\* the switch has been taken on an entry whose status it does not know
AtForeignItem ==
    /\ pc = "decided"
    /\ WellFormed(status.map[Item.slug])
    /\ status.map[Item.slug].status \notin StatusEnum

\* C31: an item whose stored status is a string outside the statuses of
\* the switch is decided as not needed and not outdated, whatever was
\* decided for the item before it, and the downloader is called for it only
\* under --force or --rehash.
ForeignStatusNotNeeded ==
    /\ [](AtForeignItem => (~needed /\ ~outdated))
    /\ [][(AtForeignItem /\ pc' # "idle")
            => IF options.force \/ options.rehash
               THEN pc' \in {"assets", "merge"} /\ invoked' = invoked + 1
               ELSE pc' = "checkpoint" /\ invoked' = invoked
                      /\ status' = status]_vars

\* item "a" was needed and the downloader was called for it; item "b",
\* next in the list, has the foreign status and is not needed
ForeignStatusNotNeededSeen ==
    /\ AtForeignItem
    /\ Item.slug = "b"
    /\ invoked = 1
    /\ status.map["a"].status \in {"partial", "full", "failed"}
    /\ ~needed

(***************************************************************************)
(* The order of the optional assets of one item.                           *)
(***************************************************************************)
IsZip(name) == name[1] = "zip"

\* the theme downloader and the plugin downloader of the same revision
InitOrder ==
    /\ \E v \in {"themattic", "pluperfect"} : Start(v, NoFile)
    /\ call = NoCall /\ returned = NoCall

SpecOrder == InitOrder /\ [][Next]_vars

\* the downloader is about to fetch the images of the item
AtScreenshot ==
    /\ pc = "assets"
    /\ group.todo # <<>>
    /\ Head(group.todo) = ScreenshotName

GetTargets(raw, info, h, migrated) ==
    LET rec == raw[info]
        out == h[migrated]
        object(heap, r, f) == IF IsRef(r[f]) THEN heap[r[f][2]] ELSE <<>>
        versions == object(raw, rec, "versions")
        screenshots == object(raw, rec, "screenshots")
        banners == object(raw, rec, "banners")
        migratedBanners == object(h, out, "banners")
    IN (IF IsUrl(rec.download_link)
        THEN {<<"download_link", rec.download_link>>} ELSE {})
         \cup {<<"version", k, versions[k]>> :
                 k \in {x \in DOMAIN versions : x # "trunk" /\ IsTruthy(versions[x])}}
         \cup (IF IsUrl(rec.preview_link) /\ IsUrl(out.preview_link)
               THEN {<<"preview_link", rec.preview_link>>} ELSE {})
         \cup {<<"screenshot", k, raw[screenshots[k][2]].src>> :
                 k \in {x \in DOMAIN screenshots :
                          /\ IsUrl(raw[screenshots[x][2]].src)
                          /\ IsTruthy(out.screenshots)}}
         \cup {<<"banner", k, banners[k]>> :
                 k \in {x \in DOMAIN banners \cap DOMAIN migratedBanners :
                          /\ IsUrl(banners[x])
                          /\ x = "high" => IsUrl(migratedBanners[x])}}

\* after a fetch of the metadata, and from the cached raw copy of it
FreshTargets == GetTargets(returned.heap, "in", returned.heap, "out")
CachedTargets == GetTargets(call.heap, "in", returned.heap, "out")

\* C33: every GET the downloader issues for an asset (archive, preview,
\* screenshot, banner) targets the upstream URL of the raw record, never a
\* mirror URL, whether the raw record was fetched and migrated in the same
\* call or read from the cached raw copy.
GetsTargetUpstream ==
    returned.op = "migratePluginInfo" =>
      /\ \A t \in FreshTargets \cup CachedTargets : Last(t)[2] = "upstream"
      /\ FreshTargets = CachedTargets

(***************************************************************************)
(* The statuses an iteration leaves behind.                                *)
(***************************************************************************)
Final == {"full", "partial", "failed"}

\* C34: after the iteration of an item for which the downloader was
\* invoked, the stored status of the item is full, partial or failed, and
\* no status file written by a checkpoint or by the final save has an
\* entry with status outdated.
OutdatedIsTransient ==
    /\ (/\ pc = "checkpoint"
        /\ WellFormed(status.map[Item.slug])
        /\ ShouldProcess(needed, outdated, options))
          => status.map[Item.slug].status \in Final
    /\ statusFile.readable
          => \A slug \in DOMAIN statusFile.map :
                statusFile.map[slug].status # "outdated"

\* a checkpoint has just written the entry of an item that was outdated
\* and whose download failed
OutdatedIsTransientSeen ==
    /\ pc = "loop"
    /\ idx > 1
    /\ outdated
    /\ statusFile.readable
    /\ themeList[idx - 1].slug \in DOMAIN statusFile.map
    /\ statusFile.map[themeList[idx - 1].slug] = status.map[themeList[idx - 1].slug]
    /\ statusFile.map[themeList[idx - 1].slug].status = "failed"

(***************************************************************************)
(* A slug that was dropped from the candidate list and is listed again.    *)
(* The status file is the one of a run over the list without "a", after a  *)
(* run in which the primary archive of "a" threw and the metadata request  *)
(* of "b" was refused.                                                     *)
(***************************************************************************)
PrunedFile ==
    [readable |-> TRUE, when |-> 0,
     map |-> [s \in {"a", "b"} |->
                IF s = "a"
                THEN [status |-> "uninteresting", when |-> 0,
                      last_updated_time |-> ToStamp(1), files |-> EmptyMap]
                ELSE [status |-> "failed", when |-> 0,
                      last_updated_time |-> Undefined, files |-> EmptyMap]]]

InitPruned ==
    /\ StartOn("themattic", Json(1), PrunedFile)
    /\ call = NoCall /\ returned = NoCall

SpecPruned == InitPruned /\ [][Next]_vars

Unforced == ~options.force /\ ~options.rehash

\* C35: a slug stored as uninteresting that is in the candidate list
\* again keeps the status uninteresting when the run loads the store, and
\* when its iteration comes, unless the stored timestamp is older than the
\* listed one; a run without --force and --rehash that finds it
\* uninteresting skips it: the downloader is not called, nothing is
\* fetched or written for it, and its entry stays as it is.
UninterestingIsAbsorbing ==
    /\ [][(/\ pc = "idle" /\ pc' = "loop"
           /\ statusFile.readable
           /\ "a" \in DOMAIN statusFile.map
           /\ statusFile.map["a"].status = "uninteresting")
            => status'.map["a"].status = "uninteresting"]_vars
    /\ [][(/\ pc = "loop" /\ pc' = "decided"
           /\ Item.slug \in DOMAIN status.map
           /\ status.map[Item.slug].status = "uninteresting")
            => /\ status'.map[Item.slug].status =
                    IF Stale(status.map[Item.slug], Item)
                    THEN "outdated" ELSE "uninteresting"
               /\ ~Stale(status.map[Item.slug], Item) => ~needed' /\ ~outdated']_vars
    /\ [][(/\ pc = "decided" /\ pc' # "idle"
           /\ status.map[Item.slug].status = "uninteresting"
           /\ Unforced)
            => /\ pc' = "checkpoint"
               /\ invoked' = invoked /\ gets' = gets
               /\ fs' = fs /\ status' = status]_vars

\* the slug is listed again in a run with --full and --retry, and was
\* skipped
UninterestingIsAbsorbingSeen ==
    /\ pc = "checkpoint"
    /\ Item.slug = "a"
    /\ status.map["a"].status = "uninteresting"
    /\ options.full /\ options.retry /\ Unforced
    /\ invoked = 0 /\ skipped = 1

\* the status stored for the item by the block after the downloader
MergedStatus == status'.map[Item.slug].status

\* C36: the group status is a function of ok and of the mode only.  ok is
\* false exactly when the metadata is not valid, an exception occurred or
\* a fetch that was attempted did not return full; the status is failed
\* when ok is false, full when ok is true in full mode, partial when ok is
\* true in partial mode.  So an invocation in partial mode never yields
\* full, and an invocation in full mode with an asset that failed yields
\* failed.
StatusByOkAndMode ==
    /\ [][(pc = "decided" /\ pc' \in {"assets", "merge"})
            => (group'.ok <=> ~NoValidRecord(fs'[Item.slug].meta))]_vars
    /\ [][(pc = "assets" /\ pc' # "idle")
            => /\ group'.ok => (group.ok /\ ReturnedFull(Head(group.todo), group'))
               /\ (/\ group.ok /\ group'.todo # <<>>
                   /\ ReturnedFull(Head(group.todo), group')) => group'.ok]_vars
    /\ [][(pc = "merge" /\ pc' = "checkpoint")
            => /\ MergedStatus = IF ~group.ok THEN "failed"
                                 ELSE IF options.full THEN "full" ELSE "partial"
               /\ ~options.full => MergedStatus \in {"partial", "failed"}
               /\ (\E name \in DOMAIN group.files : group.files[name].status # "full")
                     => MergedStatus = "failed"]_vars

\* the cached raw copy of the item is a body with an error or without a
\* mandatory field
InvalidCached == fs[Item.slug].meta = Json(0)

CounterPartition ==
    pc \in {"loop", "checkpoint"} => soFar = success + failure + skipped

(***************************************************************************)
(* splitFilename on the identifiers of two items.                          *)
(***************************************************************************)
\* 'a', 'z' and a letter past 'z'
PairPoints == {97, Z_CODE_POINT, 945}

PairStrings ==
    UNION {[1..n -> PairPoints] : n \in 0..MaxLen}

InitShards ==
    /\ Start("themattic", NoFile)
    /\ call \in [op : {"splitFilename, twice"}, name : PairStrings,
                 other : PairStrings, prefixLength : 0..MaxPrefix]
    /\ returned = NoCall

CallSplitTwice ==
    /\ call.op = "splitFilename, twice"
    /\ returned = NoCall
    /\ returned' = [op |-> call.op,
                    value |-> splitFilename(call.name, call.prefixLength),
                    other |-> splitFilename(call.other, call.prefixLength)]
    /\ UNCHANGED <<world, faults, pc, variant, options, pace, themeList, now,
                   previous, call, idx, status, counters, needed, outdated,
                   changed, group, invoked, gets, sinceSave, saveFailed, seen>>

NextShards == CallSplitTwice

SpecShards == InitShards /\ [][NextShards]_vars

\* C39: for every prefix length and every two distinct non-empty
\* identifiers without a separator, splitFilename returns two distinct
\* paths, also when both identifiers are in the overflow directory or have
\* the same first N characters.
ShardsAreInjective ==
    (/\ returned.op = "splitFilename, twice"
     /\ call.name # <<>> /\ call.other # <<>>
     /\ call.name # call.other)
       => returned.value # returned.other

\* two identifiers of the overflow directory
ShardsAreInjectiveSeen ==
    /\ returned.op = "splitFilename, twice"
    /\ call.prefixLength = 2
    /\ call.name = <<945>>
    /\ call.other = <<945, 97>>
    /\ returned.value = <<Z_CODE_POINT, Z_CODE_POINT, Plus, Slash, 945>>
    /\ returned.other = <<Z_CODE_POINT, Z_CODE_POINT, Plus, Slash, 945, 97>>

====
